---------------------------- MODULE Spec2Model ----------------------------
(***************************************************************************)
(* A model of the batsim simulation core (hpc/batsim4):                    *)
(*   - JsonProtocolWriter : the outbound message writer (protocol.cpp)     *)
(*   - JsonProtocolReader : the parser / dispatcher of scheduler replies   *)
(*   - the job life cycle (JobState, Job::is_complete)                     *)
(*   - the batsim-level checkpoint (handle_notify "checkpoint",            *)
(*     Workload::write_out_batsim_checkpoint, load_from_json_chkpt)        *)
(*   - the workload copy transformation (alter_workload, copyComponents)   *)
(*   - the loading of a workload file (Workload::load_from_json)           *)
(*   - the checkpointing overhead Job::from_json adds to a job's work      *)
(*   - the checks of the command line (parse_main_args, main)              *)
(*   - the Jobs container (add_job, delete_job, exists)                    *)
(*   - the dynamic-registration gate of the reader                         *)
(* Each part has its own specification over the part's variables; the      *)
(* variables of the other parts stay at their initial values.              *)
(***************************************************************************)
EXTENDS Integers, Sequences, FiniteSets, TLC

VARIABLES
    aborted,          \* an xbt_assert failed: the process has terminated
    \* ---- JsonProtocolWriter
    last_date,        \* JsonProtocolWriter::_last_date
    is_empty,         \* JsonProtocolWriter::_is_empty
    events,           \* JsonProtocolWriter::_events: the events appended so far
    events_IsArray,   \* _events.IsArray(): FALSE once _events has been moved into _doc
    doc,              \* JsonProtocolWriter::_doc: the generated message, or NoDoc
    appended,         \* history: the events the append_* methods have pushed since the last clear()
    nb_cleared,       \* history: the number of events pushed before the last clear(), since the one before
    \* ---- JsonProtocolReader
    clock,            \* simgrid::s4u::Engine::get_clock()
    reply,            \* the scheduler reply being parsed (the parsed rapidjson document)
    pc,               \* position of the reader: "wait", "events" (in the loop), "ready" (SCHED_READY sent)
    pos,              \* the loop index i of parse_and_apply_message, 1-based
    handled,          \* event numbers whose handler_function has been invoked
    delivered,        \* messages sent to the "server" mailbox, in sending order
    \* ---- jobs
    jobs,             \* Jobs::_jobs: the identifiers of the registered jobs
    job_state,        \* Job::state of each job
    execution_actor,  \* the jobs that have a live execution actor
    \* ---- batsim checkpoints
    job_profile,      \* Job::profile of each job of workload w0: a profile name
    job_walltime,     \* Job::walltime
    job_progress,     \* compute_job_progress()->current_task_progress_ratio, in percent
    other_jobs,       \* the live jobs of the workloads loaded after w0
    keep,             \* batsim_chkpt_interval::keep
    nb_checkpoints,   \* batsim_chkpt_interval::nb_checkpoints
    dirs,             \* checkpoint_<i>: 0 if absent, else the number of the snapshot in it
    triggers,         \* checkpoint notifications handled so far
    workload_json,    \* checkpoint_1/workload.json
    nb_checkpoint,    \* start_from_chkpt::nb_checkpoint
    nb_original_jobs, \* start_from_chkpt::nb_original_jobs
    nb_actually_completed,    \* start_from_chkpt::nb_actually_completed
    nb_previously_completed,  \* start_from_chkpt::nb_previously_completed
    started_from_checkpoint,  \* start_from_chkpt::started_from_checkpoint
    dynamic_registrations,    \* jobs registered by REGISTER_JOB so far
    dynamic_at_snapshot,      \* dynamic_registrations when workload.json was written
    restored,         \* the workload load_from_json_chkpt has read back
    \* ---- workload copy
    copy,             \* MainArguments::Copies: the parsed --copy option
    nb_old_jobs,      \* the number of jobs of the workload before the copy
    submission_time,  \* Job::submission_time of each job of oldJobs
    purpose,          \* Job::purpose of each job of the workload: "job" or "reservation"
    copy_i,           \* the loop index i of alter_workload
    startId,          \* startId of alter_workload
    randomNumber,     \* randomNumber of alter_workload, passed by reference
    newJobs,          \* newJobs of copyComponents
    next_job,         \* the position of the loop of copyComponents in newJobs, 1-based
    copy_pc,          \* "loop": in alter_workload; "jobs": in copyComponents
    copied_jobs,      \* the jobs Jobs::extend has added to the workload
    drawn,            \* the numbers uniform_distribution has returned, in order
    \* ---- workload loading
    load_pc,          \* position in load_from_json: "nb_res", "profiles", "jobs", "loaded", "simulation"
    file_nb_res,      \* the "nb_res" member of the workload file
    file_profiles,    \* the "profiles" member of the workload file, once read
    file_jobs,        \* the elements of "jobs" read so far, the one being checked included
    nb_machines,      \* nb_machines of load_from_json
    \* ---- Job::from_json, application-level checkpointing
    from_json_pc,     \* "profile": before the branch on the profile type; "done": after it
    profile_type,     \* Profile::type of the job's profile: "DELAY" or "PARALLEL_HOMOGENEOUS"
    profile_work,     \* DelayProfileData::delay, or ParallelHomogeneousProfileData::cpu
    real_work,        \* DelayProfileData::real_delay, or real_cpu
    original_work,    \* DelayProfileData::original_delay, or original_cpu: -1 if unset
    checkpoint_interval,  \* Job::checkpoint_interval
    dump_time,        \* Job::dump_time
    j_walltime,       \* Job::walltime: -1 if the job has none
    checkpointing_on, \* Workload::_checkpointing_on
    resubmitted,      \* the job's name holds a "#"
    from_workload,    \* Job::from_workload
    performance_factor,             \* Workload::_performance_factor
    global_checkpointing_interval,  \* Workload::_global_checkpointing_interval, -1 if not set
    compute_checkpointing,          \* Workload::_compute_checkpointing
    \* ---- parse_main_args and main
    main_pc,          \* position in main: "start", "parsed", "simulation", "exited"
    defects,          \* what is wrong with the command line given to the process
    dump_execution_context,  \* MainArguments::dump_execution_context
    logged_errors,    \* the defects an XBT_ERROR line has been logged for
    return_code,      \* return_code of main
    run_simulation,   \* run_simulation of main
    exit_code,        \* the value main has returned, -1 before it returns
    \* ---- the Jobs container
    jobs_map,         \* the keys of Jobs::_jobs
    jobs_met,         \* the keys of Jobs::_jobs_met
    last_delete,      \* history: the last call of Jobs::delete_job
    \* ---- the dynamic-registration gate
    registration_sched_enabled,   \* BatsimContext::registration_sched_enabled
    registration_sched_finished,  \* BatsimContext::registration_sched_finished
    reg_reply,        \* the events of the reply being parsed: their types
    reg_pos,          \* the loop index of parse_and_apply_message, 1-based
    reg_pc,           \* "wait", "events" (in the loop), "sending" (blocked in the send)
    in_flight,        \* the message the reader is sending to the server, or "none"
    nb_replies,       \* the replies received so far
    received,         \* the events whose handler has been called, over all replies
    accepted,         \* the positions in received of the registrations that passed
    \* ---- handle_execute_job
    execute_data,     \* the "data" object of the EXECUTE_JOB event
    execute_pc,       \* "event": the handler has not run; "done": it has
    allocation_mapping,     \* message->allocation->mapping
    sched_execute_job_sent, \* the SCHED_EXECUTE_JOB messages sent to the server
    \* ---- the workload store and handle_register_profile
    workloads,        \* Workloads::_workloads: the names in the store (0 is the static workload)
    workload_profiles,  \* the names of the profiles of each workload
    last_registered,  \* history: the last REGISTER_PROFILE handled, and whether it named a new workload
    \* ---- call-me-later timers
    call_me_laters,   \* BatsimContext::call_me_laters: the pending timers, in the order of the multimap
    nb_call_me_laters,  \* history: the CALL_ME_LATER events handled so far
    fired,            \* history: the timers consumed so far, in order
    variables_chkpt,  \* batsim_variables.chkpt of the last snapshot, with the timers before and after it
    file_work,        \* the delay of the shared profile in the workload file
    nb_from_json,     \* calls of Job::from_json on jobs that name the shared profile
    nb_copies,        \* calls of Jobs::get_jobs_as_copied_vector
    named_after_job,  \* the shared profile bears the number of the job that names it
    file_subtime,     \* Job::submission_time of the jobs of the workload file
    sub_purpose,      \* Job::purpose of the jobs of the workload file
    st_random,        \* SubmissionTimes::random, "none" if value1 is empty
    st_value1,        \* SubmissionTimes::value1
    st_shuffle,       \* SubmissionTimes::shuffle is "shuffle" or "s"
    st_seed,          \* SubmissionTimes::seed, NoSeed if empty
    before_shuffle,   \* per load, the submission times when the shuffle begins
    loaded,           \* per load, the submission times change_submits leaves
    \* ---- BatTask (the task tree of one running job)
    task,             \* Job::task: the root BatTask
    sub_tasks,        \* BatTask::sub_tasks of the root: its children, in order
    engine_clock,     \* simgrid::s4u::Engine::get_clock()
    progress_call,    \* history: the last call of Job::compute_job_progress
    \* ---- JobIdentifier (construction from a string)
    job_id_str,       \* the string handed to JobIdentifier::JobIdentifier
    job_identifier    \* the identifier constructed, or how the construction ended

wvars == <<last_date, is_empty, events, events_IsArray, doc, appended, nb_cleared>>

rvars == <<clock, reply, pc, pos, handled, delivered>>

jvars == <<jobs, job_state, execution_actor>>

kvars == <<job_profile, job_walltime, job_progress, other_jobs, keep, nb_checkpoints,
           dirs, triggers, workload_json, nb_checkpoint, nb_original_jobs,
           nb_actually_completed, nb_previously_completed, started_from_checkpoint,
           dynamic_registrations, dynamic_at_snapshot, restored>>

cvars == <<copy, nb_old_jobs, submission_time, purpose, copy_i, startId, randomNumber, newJobs,
           next_job, copy_pc, copied_jobs, drawn>>

lvars == <<load_pc, file_nb_res, file_profiles, file_jobs, nb_machines>>

fvars == <<from_json_pc, profile_type, profile_work, real_work, original_work,
           checkpoint_interval, dump_time, j_walltime, checkpointing_on, resubmitted,
           from_workload, performance_factor, global_checkpointing_interval,
           compute_checkpointing>>

mvars == <<main_pc, defects, dump_execution_context, logged_errors, return_code,
           run_simulation, exit_code>>

jmvars == <<jobs_map, jobs_met, last_delete>>

gvars == <<registration_sched_enabled, registration_sched_finished, reg_reply, reg_pos,
           reg_pc, in_flight, nb_replies, received, accepted>>

xvars == <<execute_data, execute_pc, allocation_mapping, sched_execute_job_sent>>

svars == <<workloads, workload_profiles, last_registered>>

tvars == <<call_me_laters, nb_call_me_laters, fired, variables_chkpt>>

hvars == <<file_work, nb_from_json, nb_copies, named_after_job>>

uvars == <<file_subtime, sub_purpose, st_random, st_value1, st_shuffle, st_seed,
           before_shuffle, loaded>>

bvars == <<task, sub_tasks, engine_clock, progress_call>>

ivars == <<job_id_str, job_identifier>>

vars == <<aborted, wvars, rvars, jvars, kvars, cvars, lvars, fvars, mvars, jmvars, gvars, xvars, svars, tvars, hvars, uvars, bvars, ivars>>

\* The variables each part leaves alone.
notWriter == <<rvars, jvars, kvars, cvars, lvars, fvars, mvars, jmvars, gvars, xvars, svars, tvars, hvars, uvars, bvars, ivars>>

notReader == <<wvars, jvars, kvars, cvars, lvars, fvars, mvars, jmvars, gvars, xvars, svars, tvars, hvars, uvars, bvars, ivars>>

notJobs == <<wvars, rvars, kvars, cvars, lvars, fvars, mvars, jmvars, gvars, xvars, svars, tvars, hvars, uvars, bvars, ivars>>

notChkpt == <<wvars, rvars, cvars, lvars, fvars, mvars, jmvars, gvars, xvars, svars, tvars, hvars, uvars, bvars, ivars>>

notCopy == <<wvars, rvars, jvars, kvars, lvars, fvars, mvars, jmvars, gvars, xvars, svars, tvars, hvars, uvars, bvars, ivars>>

notLoad == <<wvars, rvars, jvars, kvars, cvars, fvars, mvars, jmvars, gvars, xvars, svars, tvars, hvars, uvars, bvars, ivars>>

notFromJson == <<wvars, rvars, jvars, kvars, cvars, lvars, mvars, jmvars, gvars, xvars, svars, tvars, hvars, uvars, bvars, ivars>>

notMain == <<wvars, rvars, jvars, kvars, cvars, lvars, fvars, jmvars, gvars, xvars, svars, tvars, hvars, uvars, bvars, ivars>>

notJobsMap == <<wvars, rvars, jvars, kvars, cvars, lvars, fvars, mvars, gvars, xvars, svars, tvars, hvars, uvars, bvars, ivars>>

notRegistration == <<wvars, rvars, jvars, kvars, cvars, lvars, fvars, mvars, jmvars, xvars, svars, tvars, hvars, uvars, bvars, ivars>>

notExecute == <<wvars, rvars, jvars, kvars, cvars, lvars, fvars, mvars, jmvars, gvars, svars, tvars, hvars, uvars, bvars, ivars>>

notStore == <<wvars, rvars, jvars, kvars, cvars, lvars, fvars, mvars, jmvars, gvars, xvars, tvars, hvars, uvars, bvars, ivars>>

notTimers == <<wvars, rvars, jvars, kvars, cvars, lvars, fvars, mvars, jmvars, gvars, xvars, svars, hvars, uvars, bvars, ivars>>

notFromJsonShared == <<wvars, rvars, jvars, kvars, cvars, lvars, mvars, jmvars, gvars, xvars, svars, tvars, uvars, bvars, ivars>>

notShared == <<wvars, rvars, jvars, kvars, cvars, lvars, fvars, mvars, jmvars, gvars, xvars, svars, tvars, uvars, bvars, ivars>>

notSubmits == <<wvars, rvars, jvars, kvars, cvars, lvars, fvars, mvars, jmvars, gvars, xvars, svars, tvars, hvars, bvars, ivars>>

notProgress == <<wvars, rvars, jvars, kvars, cvars, lvars, fvars, mvars, jmvars, gvars, xvars, svars, tvars, hvars, uvars, ivars>>

notIdentifier == <<wvars, rvars, jvars, kvars, cvars, lvars, fvars, mvars, jmvars, gvars, xvars, svars, tvars, hvars, uvars, bvars>>

(***************************************************************************)
(* Bounds of the model.                                                    *)
(***************************************************************************)
MaxDate == 2          \* dates and timestamps range over 0..MaxDate
MaxEvents == 2        \* events appended to one outbound message
MaxNow == 1           \* "now" and timestamps of a scheduler reply range over 0..MaxNow
MaxReplyEvents == 2   \* events in one scheduler reply
MaxJobs == 2          \* jobs of workload w0
MaxOtherJobs == 1     \* jobs of a second workload
MaxKeep == 2          \* checkpoint directories kept
MaxTriggers == 3      \* checkpoint notifications, where the rotation is followed
MaxSnapshots == 2     \* checkpoint notifications, where the jobs are followed
MaxCopies == 3        \* the number of copies --copy asks for, the original included
MaxCopyJobs == 2      \* jobs of the workload that is copied
MaxJitter == 1        \* value1 and value2 of --copy range over 0..MaxJitter
MaxFileJobs == 2      \* elements of "jobs" in a workload file
MaxRes == 2           \* "res" of a job and "nb_res" of a profile range over 1..MaxRes
MaxDelay == 10        \* the work of a profile ranges over 1..MaxDelay seconds
MaxInterval == 4      \* checkpoint intervals range over 1..MaxInterval
MaxDumpTime == 2      \* dump times range over 0..MaxDumpTime
MaxFactor == 2        \* performance factors range over 1..MaxFactor
MaxGlobalInterval == 2 \* a global checkpointing interval ranges over 1..MaxGlobalInterval
MaxReferences == 2    \* jobs that name one profile
MaxReparses == 1      \* calls of Jobs::get_jobs_as_copied_vector
MaxSubmitJobs == 2    \* jobs of the workload whose submission times are changed
MaxSubtime == 1       \* submission times in the workload file range over 0..MaxSubtime
MaxValue1 == 1        \* value1 of --submission-time is 0 or MaxValue1
MaxSeed == 1          \* seeds range over 0..MaxSeed
MaxDraw == 2          \* numbers drawn from a distribution range over 0..MaxDraw
MaxJobIds == 4        \* job identifiers given to add_job and delete_job
MaxRegistrationEvents == 2   \* registration events in one scheduler reply
MaxRegistrationReplies == 2  \* scheduler replies that hold registration events
MaxAllocated == 2     \* the resources "alloc" allocates range over 0..MaxAllocated
MaxMappingMembers == 2 \* members of "mapping"; executors range over 0..MaxMappingMembers
MaxDynamicWorkloads == 2  \* workload names the scheduler may give
MaxDynamicProfiles == 2   \* profile names the scheduler may give
MaxTargetTime == 2    \* target times of call-me-later timers range over 0..MaxTargetTime
MaxTimers == 3        \* CALL_ME_LATER events handled

Dates == 0..MaxDate

\* _doc after SetObject() / RemoveAllMembers(): an object with no member.
NoDoc == [empty |-> TRUE, now |-> -1, events |-> <<>>]

(***************************************************************************)
(* JsonProtocolWriter                                                      *)
(***************************************************************************)
WriterInit ==
    /\ last_date = -1
    /\ is_empty = TRUE
    /\ events = <<>>
    /\ events_IsArray = TRUE
    /\ doc = NoDoc
    /\ appended = <<>>
    /\ nb_cleared = 0

\* The prologue shared by the append_* methods that assert on the date:
\*     xbt_assert(date >= _last_date, "Date inconsistency");
DateConsistent(date) == date >= last_date

\* _events.PushBack(event, _alloc): rapidjson requires _events to be an array.
PushBack(type, date) ==
    IF ~events_IsArray
    THEN /\ aborted' = TRUE
         /\ UNCHANGED <<events, events_IsArray, appended, nb_cleared>>
    ELSE /\ events' = Append(events, [timestamp |-> date, type |-> type])
         /\ appended' = Append(appended, [timestamp |-> date, type |-> type])
         /\ UNCHANGED <<aborted, events_IsArray, nb_cleared>>

\* An append_* method whose first statement is the date assertion.
AppendChecked(type, date) ==
    /\ ~aborted
    /\ Len(events) < MaxEvents
    /\ IF ~DateConsistent(date)
       THEN /\ aborted' = TRUE
            /\ UNCHANGED notReader
       ELSE /\ last_date' = date
            /\ is_empty' = FALSE
            /\ PushBack(type, date)
            /\ UNCHANGED doc

append_requested_call == \E date \in Dates : AppendChecked("REQUESTED_CALL", date)

append_simulation_begins == \E date \in Dates : AppendChecked("SIMULATION_BEGINS", date)

append_simulation_ends == \E date \in Dates : AppendChecked("SIMULATION_ENDS", date)

append_job_submitted == \E date \in Dates : AppendChecked("JOB_SUBMITTED", date)

append_job_completed == \E date \in Dates : AppendChecked("JOB_COMPLETED", date)

append_job_killed == \E date \in Dates : AppendChecked("JOB_KILLED", date)

append_from_job_message == \E date \in Dates : AppendChecked("FROM_JOB_MSG", date)

append_resource_state_changed == \E date \in Dates : AppendChecked("RESOURCE_STATE_CHANGED", date)

append_query_estimate_waiting_time == \E date \in Dates : AppendChecked("QUERY", date)

append_answer_energy == \E date \in Dates : AppendChecked("ANSWER", date)

append_notify == \E date \in Dates : AppendChecked("NOTIFY", date)

append_notify_resource_event == \E date \in Dates : AppendChecked("NOTIFY", date)

append_notify_generic_event == \E date \in Dates : AppendChecked("NOTIFY", date)

\* append_notify_job_fault_event sets _last_date without asserting on it.
append_notify_job_fault_event ==
    \E date \in Dates :
        /\ ~aborted
        /\ Len(events) < MaxEvents
        /\ last_date' = date
        /\ is_empty' = FALSE
        /\ PushBack("NOTIFY", date)
        /\ UNCHANGED doc

\* _events.SetArray() of clear(), were it missing: the array is left as it is.
SetArray_Missing == UNCHANGED <<events, events_IsArray>>

\* _events.SetArray(): an empty array again.
SetArray ==
    /\ events' = <<>>
    /\ events_IsArray' = TRUE

\* clear(): _last_date is left as it is.
clear ==
    /\ ~aborted
    /\ is_empty' = TRUE
    /\ doc' = NoDoc
    /\ SetArray
    /\ appended' = <<>>
    /\ nb_cleared' = Len(appended)
    /\ UNCHANGED <<last_date, aborted>>

\* generate_current_message(date): AddMember moves _events into _doc.
generate_current_message ==
    \E date \in Dates :
        /\ ~aborted
        /\ IF ~DateConsistent(date) \/ ~events_IsArray
           THEN /\ aborted' = TRUE
                /\ UNCHANGED notReader
           ELSE /\ doc' = [empty |-> FALSE, now |-> date, events |-> events]
                /\ events' = <<>>
                /\ events_IsArray' = FALSE
                /\ UNCHANGED <<last_date, is_empty, aborted, appended, nb_cleared>>

(***************************************************************************)
(* JsonProtocolReader                                                      *)
(***************************************************************************)
\* A JSON member that should be a number: absent or of another type, or d.
NotANumber == [IsNumber |-> FALSE, d |-> 0]

Number(d) == [IsNumber |-> TRUE, d |-> d]

\* A JSON member that should be a string: absent or of another type, or s.
NotAString == [IsString |-> FALSE, s |-> ""]

String(s) == [IsString |-> TRUE, s |-> s]

\* The keys of _type_to_handler_map, filled by the constructor.
type_to_handler_map ==
    {"QUERY", "ANSWER", "REJECT_JOB", "EXECUTE_JOB", "CHANGE_JOB_STATE",
     "CALL_ME_LATER", "KILL_JOB", "REGISTER_JOB", "REGISTER_PROFILE",
     "SET_RESOURCE_STATE", "SET_JOB_METADATA", "NOTIFY", "TO_JOB_MSG"}

\* The event objects a scheduler may put in a reply: two inbound types and a
\* type batsim only writes, each member possibly missing or ill-typed.
ReplyEvents ==
    [timestamp : {NotANumber} \cup {Number(d) : d \in 0..MaxNow},
     type : {NotAString, String("EXECUTE_JOB"), String("JOB_SUBMITTED")},
     HasData : BOOLEAN]

RECURSIVE SeqsUpTo(_, _)
SeqsUpTo(S, n) ==
    IF n = 0 THEN {<<>>}
    ELSE LET shorter == SeqsUpTo(S, n - 1)
         IN  shorter \cup {Append(q, x) : q \in {r \in shorter : Len(r) = n - 1}, x \in S}

\* The messages parse_and_apply_message may be given.
Replies ==
    [now : {NotANumber} \cup {Number(d) : d \in 0..MaxNow},
     events_IsArray : {TRUE},
     events : SeqsUpTo(ReplyEvents, MaxReplyEvents)]
    \cup
    [now : {NotANumber} \cup {Number(d) : d \in 0..MaxNow},
     events_IsArray : {FALSE},
     events : {<<>>}]

NoReply == [now |-> NotANumber, events_IsArray |-> FALSE, events |-> <<>>]

ReaderInit ==
    /\ clock = 0
    /\ reply = NoReply
    /\ pc = "wait"
    /\ pos = 1
    /\ handled = <<>>
    /\ delivered = <<>>

\* parse_and_apply_event without its comparison of the timestamp with now.
EventAccepted_NoNowCheck(event_object, now) ==
    /\ event_object.timestamp.IsNumber
    /\ event_object.type.IsString
    /\ event_object.type.s \in type_to_handler_map
    /\ event_object.HasData

\* The xbt_asserts of parse_and_apply_event that precede the handler call.
EventAccepted(event_object, now) ==
    /\ event_object.timestamp.IsNumber
    /\ event_object.timestamp.d <= now
    /\ event_object.type.IsString
    /\ event_object.type.s \in type_to_handler_map
    /\ event_object.HasData

\* send_message_at_time(when, "server", ...): sleep until when if it is in the
\* future, then send.
send_message_at_time(when, event_number) ==
    /\ clock' = IF when > clock THEN when ELSE clock
    /\ delivered' = Append(delivered,
                           [event_number |-> event_number, timestamp |-> when])

\* parse_and_apply_message up to the loop: the checks on "now" and "events".
parse_and_apply_message ==
    /\ ~aborted
    /\ pc = "wait"
    /\ \E message \in Replies :
          /\ reply' = message
          /\ IF message.now.IsNumber /\ message.events_IsArray
             THEN pc' = "events" /\ UNCHANGED aborted
             ELSE aborted' = TRUE /\ UNCHANGED pc
    /\ UNCHANGED <<clock, pos, handled, delivered>>

\* One iteration of the loop: parse_and_apply_event(events_array[i], i, now),
\* the handler it calls and the handler's send_message_at_time(timestamp, ...).
parse_and_apply_event ==
    /\ ~aborted
    /\ pc = "events"
    /\ pos <= Len(reply.events)
    /\ IF EventAccepted(reply.events[pos], reply.now.d)
       THEN /\ handled' = Append(handled, pos)
            /\ send_message_at_time(reply.events[pos].timestamp.d, pos)
            /\ pos' = pos + 1
            /\ UNCHANGED aborted
       ELSE /\ aborted' = TRUE
            /\ UNCHANGED <<handled, delivered, clock, pos>>
    /\ UNCHANGED <<reply, pc>>

\* After the loop: send_message_at_time(now, "server", SCHED_READY).
send_sched_ready ==
    /\ ~aborted
    /\ pc = "events"
    /\ pos > Len(reply.events)
    /\ clock' = IF reply.now.d > clock THEN reply.now.d ELSE clock
    /\ pc' = "ready"
    /\ UNCHANGED <<aborted, reply, pos, handled, delivered>>

\* parse_and_apply_message returns: its local document is destroyed and the
\* reader waits for the next reply; the clock keeps its value.
parse_and_apply_message_returns ==
    /\ ~aborted
    /\ pc = "ready"
    /\ reply' = NoReply
    /\ pc' = "wait"
    /\ pos' = 1
    /\ handled' = <<>>
    /\ delivered' = <<>>
    /\ UNCHANGED <<aborted, clock>>

(***************************************************************************)
(* The job life cycle.  The protocol handlers, Job and Jobs are in the      *)
(* sources; what the server and the execution actor do with a job is        *)
(* taken from the design document.                                          *)
(***************************************************************************)
JobIds == 1..MaxJobs

\* enum class JobState
JobState ==
    {"JOB_STATE_NOT_SUBMITTED", "JOB_STATE_SUBMITTED", "JOB_STATE_RUNNING",
     "JOB_STATE_COMPLETED_SUCCESSFULLY", "JOB_STATE_COMPLETED_FAILED",
     "JOB_STATE_COMPLETED_WALLTIME_REACHED", "JOB_STATE_COMPLETED_KILLED",
     "JOB_STATE_REJECTED_NOT_ENOUGH_RESOURCES",
     "JOB_STATE_REJECTED_NOT_ENOUGH_AVAILABLE_RESOURCES",
     "JOB_STATE_REJECTED_NO_WALLTIME",
     "JOB_STATE_REJECTED_NO_RESERVATION_ALLOCATION"}

\* Job::is_complete without its JOB_STATE_COMPLETED_WALLTIME_REACHED case.
is_complete_NoWalltime(state) ==
    \/ state = "JOB_STATE_COMPLETED_SUCCESSFULLY"
    \/ state = "JOB_STATE_COMPLETED_KILLED"
    \/ state = "JOB_STATE_COMPLETED_FAILED"
    \/ state = "JOB_STATE_REJECTED_NOT_ENOUGH_RESOURCES"
    \/ state = "JOB_STATE_REJECTED_NOT_ENOUGH_AVAILABLE_RESOURCES"
    \/ state = "JOB_STATE_REJECTED_NO_WALLTIME"
    \/ state = "JOB_STATE_REJECTED_NO_RESERVATION_ALLOCATION"

\* Job::is_complete
is_complete(state) ==
    \/ state = "JOB_STATE_COMPLETED_SUCCESSFULLY"
    \/ state = "JOB_STATE_COMPLETED_KILLED"
    \/ state = "JOB_STATE_COMPLETED_FAILED"
    \/ state = "JOB_STATE_REJECTED_NOT_ENOUGH_RESOURCES"
    \/ state = "JOB_STATE_REJECTED_NOT_ENOUGH_AVAILABLE_RESOURCES"
    \/ state = "JOB_STATE_REJECTED_NO_WALLTIME"
    \/ state = "JOB_STATE_REJECTED_NO_RESERVATION_ALLOCATION"
    \/ state = "JOB_STATE_COMPLETED_WALLTIME_REACHED"

\* The strings job_state_from_string converts; any other string fails its
\* assertion ("Invalid job state").
job_state_names ==
    {"NOT_SUBMITTED", "SUBMITTED", "RUNNING", "COMPLETED_SUCCESSFULLY",
     "COMPLETED_FAILED", "COMPLETED_KILLED", "COMPLETED_WALLTIME_REACHED",
     "REJECTED_NOT_ENOUGH_RESOURCES", "REJECTED_NOT_ENOUGH_AVAILABLE_RESOURCES",
     "REJECTED_NO_WALLTIME", "REJECTED_NO_RESERVATION_ALLOCATION"}

job_state_from_string(state) ==
    CASE state = "NOT_SUBMITTED" -> "JOB_STATE_NOT_SUBMITTED"
      [] state = "SUBMITTED" -> "JOB_STATE_SUBMITTED"
      [] state = "RUNNING" -> "JOB_STATE_RUNNING"
      [] state = "COMPLETED_SUCCESSFULLY" -> "JOB_STATE_COMPLETED_SUCCESSFULLY"
      [] state = "COMPLETED_FAILED" -> "JOB_STATE_COMPLETED_FAILED"
      [] state = "COMPLETED_KILLED" -> "JOB_STATE_COMPLETED_KILLED"
      [] state = "COMPLETED_WALLTIME_REACHED" -> "JOB_STATE_COMPLETED_WALLTIME_REACHED"
      [] state = "REJECTED_NOT_ENOUGH_RESOURCES" -> "JOB_STATE_REJECTED_NOT_ENOUGH_RESOURCES"
      [] state = "REJECTED_NOT_ENOUGH_AVAILABLE_RESOURCES" ->
             "JOB_STATE_REJECTED_NOT_ENOUGH_AVAILABLE_RESOURCES"
      [] state = "REJECTED_NO_WALLTIME" -> "JOB_STATE_REJECTED_NO_WALLTIME"
      [] state = "REJECTED_NO_RESERVATION_ALLOCATION" ->
             "JOB_STATE_REJECTED_NO_RESERVATION_ALLOCATION"

\* handle_change_job_state: the job_state strings it lets through.
allowed_states ==
    {"NOT_SUBMITTED", "RUNNING", "COMPLETED_SUCCESSFULLY",
     "COMPLETED_WALLTIME_REACHED", "COMPLETED_KILLED", "REJECTED"}

\* The job_state strings a scheduler sends in CHANGE_JOB_STATE.
SentStates == allowed_states \cup {"COMPLETED_FAILED", "REJECTED_NO_WALLTIME"}

\* Job::from_json creates every job in JOB_STATE_NOT_SUBMITTED.
JobsInit ==
    /\ jobs = {}
    /\ job_state = [j \in JobIds |-> "JOB_STATE_NOT_SUBMITTED"]
    /\ execution_actor = [j \in JobIds |-> FALSE]

Abort == aborted' = TRUE /\ UNCHANGED jvars

\* REGISTER_JOB: the job must not exist; it is added in JOB_STATE_SUBMITTED.
handle_register_job(j) ==
    /\ ~aborted
    /\ IF j \in jobs
       THEN Abort
       ELSE /\ jobs' = jobs \cup {j}
            /\ job_state' = [job_state EXCEPT ![j] = "JOB_STATE_SUBMITTED"]
            /\ UNCHANGED <<aborted, execution_actor>>

\* The server on SCHED_EXECUTE_JOB: one actor per job is spawned, and the
\* actor's first step records the starting time and makes the job RUNNING.
server_on_execute_job(j) ==
    IF job_state[j] = "JOB_STATE_SUBMITTED"
    THEN /\ job_state' = [job_state EXCEPT ![j] = "JOB_STATE_RUNNING"]
         /\ execution_actor' = [execution_actor EXCEPT ![j] = TRUE]
         /\ UNCHANGED <<aborted, jobs>>
    ELSE Abort

\* EXECUTE_JOB: Workloads::job_at asserts that the job exists.
handle_execute_job(j) ==
    /\ ~aborted
    /\ IF j \notin jobs THEN Abort ELSE server_on_execute_job(j)

\* The execution actor ends: clean completion, failure of the profile, or
\* wall-time expiration.
job_actor_finishes(j) ==
    /\ ~aborted
    /\ execution_actor[j]
    /\ \E state \in {"JOB_STATE_COMPLETED_SUCCESSFULLY", "JOB_STATE_COMPLETED_FAILED",
                     "JOB_STATE_COMPLETED_WALLTIME_REACHED"} :
           job_state' = [job_state EXCEPT ![j] = state]
    /\ execution_actor' = [execution_actor EXCEPT ![j] = FALSE]
    /\ UNCHANGED <<aborted, jobs>>

\* The server on SCHED_KILL_JOB: the job's actor is told to stop and the job
\* becomes COMPLETED_KILLED; a job without an actor is left as it is.
server_on_kill_jobs(j) ==
    IF execution_actor[j]
    THEN /\ job_state' = [job_state EXCEPT ![j] = "JOB_STATE_COMPLETED_KILLED"]
         /\ execution_actor' = [execution_actor EXCEPT ![j] = FALSE]
         /\ UNCHANGED <<aborted, jobs>>
    ELSE UNCHANGED <<aborted, jvars>>

\* KILL_JOB with one job message.
handle_kill_job(j) ==
    /\ ~aborted
    /\ server_on_kill_jobs(j)

\* The server on SCHED_CHANGE_JOB_STATE: the job takes the state named.
server_on_change_job_state(j, state) ==
    IF j \notin jobs \/ state \notin job_state_names
    THEN Abort
    ELSE /\ job_state' = [job_state EXCEPT ![j] = job_state_from_string(state)]
         /\ UNCHANGED <<aborted, jobs, execution_actor>>

\* CHANGE_JOB_STATE: a job_state outside allowed_states fails xbt_assert(false).
handle_change_job_state(j, state) ==
    /\ ~aborted
    /\ IF state \notin allowed_states
       THEN Abort
       ELSE server_on_change_job_state(j, state)

(***************************************************************************)
(* Loading a workload file: Workload::load_from_json, Jobs::load_from_json, *)
(* the profile lookup of Job::from_json, Workload::check_validity and      *)
(* Workload::check_single_job_validity.                                    *)
(***************************************************************************)

\* The names a profile of the file can have, and a job or a SEQUENCE profile
\* can refer to.
FileProfileNames == {"a", "b"}

\* The "nb_res" member of the document: absent, not an integer, or an integer.
NbResNodes ==
    {[HasMember |-> FALSE, IsInt |-> FALSE, i |-> 0],
     [HasMember |-> TRUE, IsInt |-> FALSE, i |-> 0]}
    \cup {[HasMember |-> TRUE, IsInt |-> TRUE, i |-> i] : i \in -1..1}

\* A name of FileProfileNames that is not a member of "profiles".
NoProfile == [present |-> FALSE, type |-> "", nb_res |-> 0, sequence |-> <<>>]

\* The members of "profiles": PARALLEL profiles with their nb_res,
\* PARALLEL_HOMOGENEOUS profiles (a member "nb_res" of such a profile is not
\* part of ParallelHomogeneousProfileData) and SEQUENCE profiles with the
\* names of their sub-profiles.
ProfileDescriptions ==
    {NoProfile}
    \cup [present : {TRUE}, type : {"PARALLEL", "PARALLEL_HOMOGENEOUS"},
          nb_res : 1..MaxRes, sequence : {<<>>}]
    \cup [present : {TRUE}, type : {"SEQUENCE"}, nb_res : {0},
          sequence : {<<name>> : name \in FileProfileNames}]

\* The elements of "jobs".
JobDescriptions == [id : 1..MaxFileJobs, profile : FileProfileNames, res : 1..MaxRes]

\* The state before a workload file is read.
LoadDefault ==
    /\ load_pc = "nb_res"
    /\ file_nb_res = [HasMember |-> FALSE, IsInt |-> FALSE, i |-> 0]
    /\ file_profiles = [name \in FileProfileNames |-> NoProfile]
    /\ file_jobs = <<>>
    /\ nb_machines = 0

\* The assertions of load_from_json on "nb_res" without the one on its sign.
nb_res_accepted_AnyInt(nb_res_node) == nb_res_node.HasMember /\ nb_res_node.IsInt

\* The assertions of load_from_json on "nb_res".
nb_res_accepted(nb_res_node) ==
    /\ nb_res_node.HasMember
    /\ nb_res_node.IsInt
    /\ nb_res_node.i > 0

\* load_from_json up to the call of profiles->load_from_json.
load_nb_res ==
    /\ ~aborted
    /\ load_pc = "nb_res"
    /\ \E nb_res_node \in NbResNodes :
          /\ file_nb_res' = nb_res_node
          /\ IF nb_res_accepted(nb_res_node)
             THEN /\ nb_machines' = nb_res_node.i
                  /\ load_pc' = "profiles"
                  /\ UNCHANGED aborted
             ELSE /\ aborted' = TRUE
                  /\ UNCHANGED <<nb_machines, load_pc>>
    /\ UNCHANGED <<file_profiles, file_jobs>>

\* profiles->load_from_json: the members of "profiles" are stored by name.
Profiles_load_from_json ==
    /\ ~aborted
    /\ load_pc = "profiles"
    /\ file_profiles' \in [FileProfileNames -> ProfileDescriptions]
    /\ load_pc' = "jobs"
    /\ UNCHANGED <<aborted, file_nb_res, file_jobs, nb_machines>>

\* Jobs::exists on the jobs stored so far.
Jobs_exists(id) == \E a \in 1..Len(file_jobs) : file_jobs[a].id = id

\* One iteration of the loop of Jobs::load_from_json: Job::from_json asserts
\* that the profile of the job exists, then the loop asserts that the id is
\* new and stores the job.
Jobs_load_from_json ==
    /\ ~aborted
    /\ load_pc = "jobs"
    /\ Len(file_jobs) < MaxFileJobs
    /\ \E job_json_description \in JobDescriptions :
          /\ file_jobs' = Append(file_jobs, job_json_description)
          /\ IF /\ file_profiles[job_json_description.profile].present
                /\ ~Jobs_exists(job_json_description.id)
             THEN UNCHANGED aborted
             ELSE aborted' = TRUE
    /\ UNCHANGED <<load_pc, file_nb_res, file_profiles, nb_machines>>

\* Workload::check_single_job_validity without the assertion on nb_res.
check_single_job_validity_NoNbRes(job) == file_profiles[job.profile].present

\* Workload::check_single_job_validity: the profile exists, and a PARALLEL
\* profile has the number of resources the job requests.
check_single_job_validity(job) ==
    /\ file_profiles[job.profile].present
    /\ file_profiles[job.profile].type = "PARALLEL" =>
          file_profiles[job.profile].nb_res = job.res

\* Workload::check_validity: every sub-profile of a SEQUENCE profile exists,
\* and every job passes check_single_job_validity.
check_validity ==
    /\ \A name \in FileProfileNames :
          file_profiles[name].type = "SEQUENCE" =>
              \A a \in 1..Len(file_profiles[name].sequence) :
                  file_profiles[file_profiles[name].sequence[a]].present
    /\ \A a \in 1..Len(file_jobs) : check_single_job_validity(file_jobs[a])

\* The end of the loop of Jobs::load_from_json and the rest of
\* load_from_json: check_validity.
load_from_json_returns ==
    /\ ~aborted
    /\ load_pc = "jobs"
    /\ IF check_validity
       THEN load_pc' = "loaded" /\ UNCHANGED aborted
       ELSE aborted' = TRUE /\ UNCHANGED load_pc
    /\ UNCHANGED <<file_nb_res, file_profiles, file_jobs, nb_machines>>

\* main goes on after load_workloads_and_workflows and starts the simulation.
simulation_starts ==
    /\ ~aborted
    /\ load_pc = "loaded"
    /\ load_pc' = "simulation"
    /\ UNCHANGED <<aborted, file_nb_res, file_profiles, file_jobs, nb_machines>>

(***************************************************************************)
(* The workload copy transformation: Workload::alter_workload and          *)
(* Workload::copyComponents for --copy <copies>:<symbol>:<value1>:<value2> *)
(* :unif:<howMany> with symbol "+" or "-", the jitter of a uniform draw.   *)
(***************************************************************************)

\* The jobs of the workload before the copy; a job's number is its index.
OldJobs == 1..nb_old_jobs

\* The submission times of the workload file.
SubTimes == {0, 10}

\* The howMany field that --copy accepts after "unif".
HowMany == {"single", "each-copy", "all"}

\* Job::jitter of a job whose submission time was not changed.
NoJitter == [symbol |-> "", value |-> 0]

\* Jobs::get_jobs_as_copied_vector: the jobs that are copied, which are
\* those whose purpose is not "reservation".
get_jobs_as_copied_vector == {j \in OldJobs : purpose[j] # "reservation"}

\* largest_id of alter_workload: the largest job number in oldJobs, or 0.
largest_id ==
    IF get_jobs_as_copied_vector = {} THEN 0
    ELSE CHOOSE num \in get_jobs_as_copied_vector :
             \A j \in get_jobs_as_copied_vector : j <= num

\* The state before alter_workload, with no --copy option.
CopyDefault ==
    /\ copy = [copies |-> 1, symbol |-> "+", value1 |-> 0, value2 |-> 0,
               howMany |-> "single"]
    /\ nb_old_jobs = 0
    /\ submission_time = [j \in 1..MaxCopyJobs |-> 0]
    /\ purpose = [j \in 1..MaxCopyJobs |-> "job"]
    /\ copy_i = 0
    /\ startId = 1
    /\ randomNumber = -1
    /\ newJobs = <<>>
    /\ next_job = 1
    /\ copy_pc = "loop"
    /\ copied_jobs = <<>>
    /\ drawn = <<>>

\* The state when alter_workload reaches the copy loop: the workload is
\* loaded, --copy is parsed, startId is largest_id plus one and randomNumber
\* is -1.
CopyInit ==
    /\ copy \in [copies : 1..MaxCopies, symbol : {"+", "-"},
                 value1 : 0..MaxJitter, value2 : 0..MaxJitter, howMany : HowMany]
    /\ copy.value1 <= copy.value2
    /\ nb_old_jobs \in 1..MaxCopyJobs
    /\ submission_time \in [1..MaxCopyJobs -> SubTimes]
    /\ purpose \in [1..MaxCopyJobs -> {"job", "reservation"}]
    /\ \A j \in 1..MaxCopyJobs :
          j > nb_old_jobs => submission_time[j] = 0 /\ purpose[j] = "job"
    /\ copy_i = 0
    /\ startId = largest_id + 1
    /\ randomNumber = -1
    /\ newJobs = <<>>
    /\ next_job = 1
    /\ copy_pc = "loop"
    /\ copied_jobs = <<>>
    /\ drawn = <<>>

\* sort_job_by_submit: by submission time, then by job number.
sort_job_by_submit(j1, j2) ==
    IF submission_time[j1] = submission_time[j2]
    THEN j1 < j2
    ELSE submission_time[j1] < submission_time[j2]

\* The old jobs in the order std::sort gives newJobs.
sorted_jobs ==
    CHOOSE order \in [1..Cardinality(get_jobs_as_copied_vector)
                          -> get_jobs_as_copied_vector] :
        \A a, b \in 1..Cardinality(get_jobs_as_copied_vector) :
            a < b => sort_job_by_submit(order[a], order[b])

\* The end of copyComponents without the reset of randomNumber.
reset_randomNumber_Never(howMany, number) == number

\* The end of copyComponents: randomNumber is reset to -1 if 'each-copy'.
reset_randomNumber(howMany, number) ==
    IF howMany = "each-copy" THEN -1 ELSE number

\* alter_workload calls copyComponents, which copies oldJobs into newJobs
\* and sorts them.
copyComponents_begins ==
    /\ ~aborted
    /\ copy_pc = "loop"
    /\ copy_i < copy.copies - 1
    \* a job of newJobs: the old job it copies, its number, its submission time
    \* and jitter, and the call of copyComponents that made it
    /\ newJobs' = [a \in 1..Cardinality(get_jobs_as_copied_vector) |->
                      [of |-> sorted_jobs[a],
                       id |-> 0,
                       submission_time |-> submission_time[sorted_jobs[a]],
                       jitter |-> NoJitter,
                       by_call |-> copy_i + 1]]
    /\ next_job' = 1
    /\ copy_pc' = "jobs"
    /\ UNCHANGED <<aborted, copy, nb_old_jobs, submission_time, purpose, copy_i, startId,
                   randomNumber, copied_jobs, drawn>>

\* One job of the loop of copyComponents, with the number the job gets
\* (startId of copyComponents, a copy of the caller's) and the random number
\* in use: the new number, the new submission time and the jitter.
copied_job(job, id, number) ==
    [job EXCEPT
        !.id = id,
        !.submission_time = IF copy.symbol = "+"
                            THEN job.submission_time + number
                            ELSE job.submission_time - number,
        !.jitter = [symbol |-> copy.symbol, value |-> number]]

\* One iteration of the loop over newJobs: a number is drawn if randomNumber
\* is -1, and randomNumber is reset at once if 'all'.
copyComponents_job ==
    /\ ~aborted
    /\ copy_pc = "jobs"
    /\ next_job <= Len(newJobs)
    /\ \E number \in IF randomNumber = -1 THEN copy.value1..copy.value2
                                          ELSE {randomNumber} :
          /\ newJobs' = [newJobs EXCEPT
                            ![next_job] = copied_job(newJobs[next_job],
                                                     startId + next_job - 1, number)]
          /\ randomNumber' = IF copy.howMany = "all" THEN -1 ELSE number
          /\ drawn' = IF randomNumber = -1
                      THEN Append(drawn, [by_call |-> copy_i + 1, value |-> number])
                      ELSE drawn
    /\ next_job' = next_job + 1
    /\ UNCHANGED <<aborted, copy, nb_old_jobs, submission_time, purpose, copy_i, startId,
                   copy_pc, copied_jobs>>

\* The job numbers of the workload: those of the file and those added.
job_numbers == OldJobs \cup {copied_jobs[a].id : a \in 1..Len(copied_jobs)}

\* copyComponents returns, and alter_workload moves startId and extends the
\* jobs of the workload with newJobs; Jobs::extend asserts that none of them
\* exists already.
copyComponents_returns ==
    /\ ~aborted
    /\ copy_pc = "jobs"
    /\ next_job > Len(newJobs)
    /\ randomNumber' = reset_randomNumber(copy.howMany, randomNumber)
    /\ startId' = startId + Len(newJobs) + 1
    /\ IF \E a \in 1..Len(newJobs) : newJobs[a].id \in job_numbers
       THEN /\ aborted' = TRUE
            /\ UNCHANGED <<copied_jobs, copy_i, copy_pc>>
       ELSE /\ copied_jobs' = copied_jobs \o newJobs
            /\ copy_i' = copy_i + 1
            /\ copy_pc' = "loop"
            /\ UNCHANGED aborted
    /\ UNCHANGED <<copy, nb_old_jobs, submission_time, purpose, newJobs, next_job, drawn>>

(***************************************************************************)
(* Batsim checkpoints: the "checkpoint" branch of handle_notify,            *)
(* Workload::write_out_batsim_checkpoint and the restart through            *)
(* Workload::load_from_json_chkpt and Job::from_json.  Amounts of work,     *)
(* wall times and progress are integers (progress in percent), which "%f"   *)
(* and operator<< print, and rapidjson reads back, without loss.            *)
(***************************************************************************)

\* The names of the profiles of workload w0.  A name in JobIds is also the
\* name of that job (workloads that give each job a profile of its own name
\* it so); 0 is the name of no job.
ProfileNames == 0..MaxJobs

\* The profiles of workload w0: DelayProfileData and
\* ParallelHomogeneousProfileData, with their delay / cpu as work.
profiles ==
    [name \in ProfileNames |->
        IF name % 2 = 0
        THEN [type |-> "delay", work |-> 100, original_work |-> 100]
        ELSE [type |-> "parallel_homogeneous", work |-> 200, original_work |-> 200]]

\* Job::walltime: -1 (none, the default) or a positive number.
WallTimes == {-1, 300}

\* The progress ratios at which a running job is observed, in percent.
Progresses == {0, 50}

\* Workload::_speed: context->machines[0]->speed, in flops per second.
speed == 1

\* batsim_tools::chkpt_name returning "_<value>" for every value.
chkpt_name_NoOffset(value) == IF value = 0 THEN 1 ELSE value

\* batsim_tools::chkpt_name: the number that follows "_" in the name.
chkpt_name(value) == IF value = 0 THEN 1 ELSE value + 1

DirIndexes == 1..MaxKeep

\* The members write_out_batsim_checkpoint writes for each job.
job_members ==
    {"id", "subtime", "res", "cores", "walltime", "profile", "checkpoint_interval",
     "dumptime", "readtime", "future_allocation", "purpose", "start", "state",
     "progress", "allocation", "consumed_energy", "jitter", "metadata",
     "batsim_metadata", "submission_times", "runtime", "starting_time"}

\* The members Job::from_json asserts on when started_from_checkpoint is set.
checkpoint_members ==
    {"allocation", "progress", "state", "metadata", "batsim_metadata", "jitter",
     "original_start", "original_submit", "runtime", "progressTimeCpu"}

NoJobEntry ==
    [present |-> FALSE, walltime |-> 0, profile |-> 0, state |-> "", progress |-> 0,
     members |-> {}]

NoProfileEntry == [present |-> FALSE, type |-> "", work |-> 0, original_work |-> 0]

\* No workload.json has been written.
NoFile ==
    [well_formed |-> FALSE, nb_checkpoint |-> 0, nb_actually_completed |-> 0,
     nb_original_jobs |-> 0,
     jobs |-> [j \in JobIds |-> NoJobEntry],
     profiles |-> [name \in ProfileNames |-> NoProfileEntry]]

NoRestore ==
    [done |-> FALSE,
     jobs |-> [j \in JobIds |-> [present |-> FALSE, walltime |-> 0, work |-> 0]]]

\* The defaults of batsim_chkpt_interval and start_from_chkpt, with no
\* workload loaded.
ChkptDefault ==
    /\ job_profile = [j \in JobIds |-> 1]
    /\ job_walltime = [j \in JobIds |-> -1]
    /\ job_progress = [j \in JobIds |-> 0]
    /\ other_jobs = 0
    /\ keep = 1
    /\ nb_checkpoints = 0
    /\ dirs = [i \in DirIndexes |-> 0]
    /\ triggers = 0
    /\ workload_json = NoFile
    /\ nb_checkpoint = 0
    /\ nb_original_jobs = 0
    /\ nb_actually_completed = 0
    /\ nb_previously_completed = 0
    /\ started_from_checkpoint = FALSE
    /\ dynamic_registrations = 0
    /\ dynamic_at_snapshot = 0
    /\ restored = NoRestore

\* load_workloads_and_workflows: every workload loaded from JSON overwrites
\* nb_original_jobs with its own number of jobs; w0 is loaded first.
load_workloads_and_workflows(nb_jobs_w0, nb_jobs_other) ==
    IF nb_jobs_other = 0 THEN nb_jobs_w0 ELSE nb_jobs_other

\* The state after main() has parsed its arguments and loaded the workloads:
\* w0 has the jobs 1..n, a second workload may be given, and keep is the last
\* field of --checkpoint-batsim-interval.
ChkptInit(keeps) ==
    /\ \E n \in 1..MaxJobs, m \in 0..MaxOtherJobs :
          /\ jobs = 1..n
          /\ other_jobs = m
          /\ nb_original_jobs = load_workloads_and_workflows(n, m)
    /\ job_state = [j \in JobIds |-> "JOB_STATE_NOT_SUBMITTED"]
    /\ execution_actor = [j \in JobIds |-> FALSE]
    /\ job_profile \in [JobIds -> ProfileNames]
    /\ \E walltime \in WallTimes : job_walltime = [j \in JobIds |-> walltime]
    /\ job_progress = [j \in JobIds |-> 0]
    /\ keep \in keeps
    /\ nb_checkpoints = 0
    /\ dirs = [i \in DirIndexes |-> 0]
    /\ triggers = 0
    /\ workload_json = NoFile
    /\ nb_checkpoint = 0
    /\ nb_actually_completed = 0
    /\ nb_previously_completed = 0
    /\ started_from_checkpoint = FALSE
    /\ dynamic_registrations = 0
    /\ dynamic_at_snapshot = 0
    /\ restored = NoRestore

\* The directory moves of the "checkpoint" notification, from i down to 1:
\* fs::remove_all(checkpoint_<i+1>), then fs::rename of checkpoint_<i> to it.
\* The result has ok = FALSE if fs::rename throws because its source is absent.
RECURSIVE move_directories(_, _)
move_directories(d, i) ==
    IF i <= 0 THEN [ok |-> TRUE, dirs |-> d]
    ELSE LET from == chkpt_name(i - 1)
             to == chkpt_name(i)
             removed == [d EXCEPT ![to] = 0]
         IN  IF removed[from] = 0
             THEN [ok |-> FALSE, dirs |-> removed]
             ELSE move_directories([removed EXCEPT ![to] = removed[from], ![from] = 0],
                                   i - 1)

\* The rotation: nothing moves unless keep > 1; start is clamped to keep - 1.
rotate ==
    IF keep > 1
    THEN LET incremented == nb_checkpoints + 1
             start == IF incremented - 1 > 0 /\ incremented - 1 >= keep
                      THEN keep - 1
                      ELSE incremented - 1
         IN  [nb_checkpoints |-> incremented,
              moved |-> move_directories(dirs, start)]
    ELSE [nb_checkpoints |-> nb_checkpoints,
          moved |-> [ok |-> TRUE, dirs |-> dirs]]

\* The jobs write_out_batsim_checkpoint writes: those that are not complete.
live_jobs == {j \in jobs : ~is_complete(job_state[j])}

\* The progress written for a job: that of its task if it is RUNNING, else 0.
progress_of(j) == IF job_state[j] = "JOB_STATE_RUNNING" THEN job_progress[j] ELSE 0

\* The amount already done: progressTimeCpu = cpuDelay * progress.
progressTimeCpu(j) == (profiles[job_profile[j]].work * progress_of(j)) \div 100

\* The profile rebuilt for a job: cpuDelay * (1 - progress) remains.
new_profile(j) ==
    [present |-> TRUE,
     type |-> profiles[job_profile[j]].type,
     work |-> (profiles[job_profile[j]].work * (100 - progress_of(j))) \div 100,
     original_work |-> profiles[job_profile[j]].original_work]

\* newWallTime: the wall time less the time already spent.
newWallTime(j) ==
    IF profiles[job_profile[j]].type = "delay"
    THEN job_walltime[j] - progressTimeCpu(j)
    ELSE job_walltime[j] - (progressTimeCpu(j) \div speed)

\* The job object written for a job; its "profile" member is the job's name.
job_entry(j) ==
    [present |-> TRUE,
     walltime |-> newWallTime(j),
     profile |-> j,
     state |-> job_state[j],
     progress |-> progress_of(j),
     members |-> job_members]

\* newProfiles[profile->name + "$"] = newProfile for each job in the order of
\* the iteration: a later job's profile replaces an earlier one of that name.
RECURSIVE newProfiles(_)
newProfiles(order) ==
    IF order = <<>> THEN [name \in ProfileNames |-> NoProfileEntry]
    ELSE LET j == order[Len(order)]
         IN  [newProfiles(SubSeq(order, 1, Len(order) - 1))
                 EXCEPT ![job_profile[j]] = new_profile(j)]

\* The orders in which the unordered_map Jobs::_jobs may be iterated.
iteration_orders ==
    {order \in SeqsUpTo(live_jobs, Cardinality(live_jobs)) :
        /\ Len(order) = Cardinality(live_jobs)
        /\ \A a, b \in 1..Len(order) : a # b => order[a] # order[b]}

\* Workload::write_out_batsim_checkpoint: the workload.json it writes.  The
\* closing brace of the last job is written even when no job was written,
\* which leaves a file that is not JSON.
write_out_batsim_checkpoint(order) ==
    [well_formed |-> live_jobs # {},
     nb_checkpoint |-> nb_checkpoint,
     nb_actually_completed |-> nb_actually_completed,
     nb_original_jobs |-> nb_original_jobs,
     jobs |-> [j \in JobIds |-> IF j \in live_jobs THEN job_entry(j) ELSE NoJobEntry],
     profiles |-> newProfiles(order)]

\* NOTIFY "checkpoint": rotate the directories, create checkpoint_1 and have
\* workload w0 write its snapshot there.
handle_notify_checkpoint ==
    /\ ~aborted
    /\ LET r == rotate
       IN  /\ nb_checkpoints' = r.nb_checkpoints
           /\ IF ~r.moved.ok
              THEN /\ aborted' = TRUE
                   /\ dirs' = r.moved.dirs
                   /\ UNCHANGED <<triggers, workload_json, dynamic_at_snapshot>>
              ELSE /\ triggers' = triggers + 1
                   /\ dirs' = [r.moved.dirs EXCEPT ![1] = triggers + 1]
                   /\ \E order \in iteration_orders :
                          workload_json' = write_out_batsim_checkpoint(order)
                   /\ dynamic_at_snapshot' = dynamic_registrations
                   /\ UNCHANGED aborted
    /\ UNCHANGED <<jvars, job_profile, job_walltime, job_progress, other_jobs, keep,
                   nb_checkpoint, nb_original_jobs, nb_actually_completed,
                   nb_previously_completed, started_from_checkpoint,
                   dynamic_registrations, restored>>

\* What the checkpoint part leaves alone when a job changes state.
jobIdle == <<other_jobs, keep, nb_checkpoints, dirs, triggers, workload_json,
             nb_checkpoint, nb_original_jobs, nb_previously_completed,
             started_from_checkpoint, dynamic_at_snapshot, restored,
             job_profile, job_walltime>>

\* The submitter makes a job of the workload SUBMITTED at its submission time.
job_submitted(j) ==
    /\ ~aborted
    /\ j \in jobs
    /\ job_state[j] = "JOB_STATE_NOT_SUBMITTED"
    /\ job_state' = [job_state EXCEPT ![j] = "JOB_STATE_SUBMITTED"]
    /\ UNCHANGED <<aborted, jobs, execution_actor>>

\* The task of a running job advances.
job_progresses(j) ==
    /\ ~aborted
    /\ execution_actor[j]
    /\ \E p \in Progresses :
          /\ p > job_progress[j]
          /\ job_progress' = [job_progress EXCEPT ![j] = p]
    /\ UNCHANGED <<aborted, jvars>>

\* The server counts a job whose execution ended.
server_on_job_completed(j) ==
    /\ job_actor_finishes(j)
    /\ nb_actually_completed' = nb_actually_completed + 1

\* A job of another workload ends.
other_job_completed ==
    /\ ~aborted
    /\ other_jobs > 0
    /\ other_jobs' = other_jobs - 1
    /\ nb_actually_completed' = nb_actually_completed + 1
    /\ UNCHANGED <<aborted, jvars>>

\* Job::from_json on a job object of the checkpoint, once the profiles of the
\* file are loaded: the assertions on the wall time, on the profile named by
\* the job and on the members of a job of a checkpoint.
from_json_accepts(json_desc, doc_profiles) ==
    /\ json_desc.walltime = -1 \/ json_desc.walltime > 0
    /\ json_desc.profile \in ProfileNames
    /\ doc_profiles[json_desc.profile].present
    /\ checkpoint_members \subseteq json_desc.members

\* The restart with --start-from-checkpoint: a new process reads
\* checkpoint_1/workload.json with load_from_json_chkpt.
load_from_json_chkpt ==
    /\ ~aborted
    /\ ~started_from_checkpoint
    /\ dirs[1] # 0
    /\ started_from_checkpoint' = TRUE
    /\ nb_checkpoints' = 0
    /\ IF /\ workload_json.well_formed
          /\ \A j \in JobIds :
                workload_json.jobs[j].present =>
                    from_json_accepts(workload_json.jobs[j], workload_json.profiles)
       THEN /\ nb_checkpoint' = workload_json.nb_checkpoint + 1
            /\ nb_original_jobs' = workload_json.nb_original_jobs
            /\ nb_previously_completed' = workload_json.nb_actually_completed
            /\ nb_actually_completed' = workload_json.nb_actually_completed
            /\ jobs' = {j \in JobIds : workload_json.jobs[j].present}
            /\ job_state' = [j \in JobIds |-> "JOB_STATE_NOT_SUBMITTED"]
            /\ execution_actor' = [j \in JobIds |-> FALSE]
            /\ job_progress' = [j \in JobIds |-> 0]
            /\ restored' =
                  [done |-> TRUE,
                   jobs |-> [j \in JobIds |->
                       IF workload_json.jobs[j].present
                       THEN [present |-> TRUE,
                             walltime |-> workload_json.jobs[j].walltime,
                             work |-> workload_json.profiles[workload_json.jobs[j].profile].work]
                       ELSE [present |-> FALSE, walltime |-> 0, work |-> 0]]]
            /\ UNCHANGED aborted
       ELSE /\ aborted' = TRUE
            /\ restored' = [restored EXCEPT !.done = TRUE]
            /\ UNCHANGED <<jvars, job_progress, nb_checkpoint, nb_original_jobs,
                           nb_previously_completed, nb_actually_completed>>
    /\ UNCHANGED <<job_profile, job_walltime, other_jobs, keep, dirs,
                   triggers, workload_json, dynamic_registrations, dynamic_at_snapshot>>

(***************************************************************************)
(* Job::from_json, application-level checkpointing: the work of a DELAY or *)
(* PARALLEL_HOMOGENEOUS profile is lengthened by the time of the dumps.    *)
(* Times are whole seconds, on which fmod, floor and "/" are exact.        *)
(***************************************************************************)

\* A job and its profile before Job::from_json reaches the branch on the
\* profile type.  original_delay / original_cpu is set only for a job read
\* from a checkpoint.  checkpoint_interval is the member of the job's
\* description, any number, or the default -1 of Job::checkpoint_interval.
FromJsonInit ==
    /\ from_json_pc = "profile"
    /\ profile_type \in {"DELAY", "PARALLEL_HOMOGENEOUS"}
    /\ \E delay \in 1..MaxDelay :
          /\ profile_work = IF profile_type = "DELAY" THEN delay ELSE delay * speed
          /\ original_work \in {-1, delay}
    /\ real_work = -1
    /\ checkpoint_interval \in -1..MaxInterval
    /\ dump_time \in 0..MaxDumpTime
    /\ j_walltime \in {-1, MaxDelay}
    /\ checkpointing_on \in BOOLEAN
    /\ resubmitted \in BOOLEAN
    /\ from_workload \in BOOLEAN
    /\ performance_factor \in 1..MaxFactor
    /\ global_checkpointing_interval \in {-1} \cup 1..MaxGlobalInterval
    /\ compute_checkpointing \in BOOLEAN

\* A job Job::from_json is not called on.
FromJsonDefault ==
    /\ from_json_pc = "profile"
    /\ profile_type = "DELAY"
    /\ profile_work = 1
    /\ original_work = -1
    /\ real_work = -1
    /\ checkpoint_interval = 1
    /\ dump_time = 0
    /\ j_walltime = -1
    /\ checkpointing_on = FALSE
    /\ resubmitted = FALSE
    /\ from_workload = FALSE
    /\ performance_factor = 1
    /\ global_checkpointing_interval = -1
    /\ compute_checkpointing = FALSE

\* A double that is infinite or not a number: what a division by a zero
\* checkpoint_interval leaves in the delay.
NotFinite == -2

\* subtract, were the last checkpoint never skipped.
subtract_Never(delay, interval) == 0

\* int subtract: 1 if fmod(delay, checkpoint_interval) is 0, else 0.  fmod
\* ignores the sign of the interval and is not a number for an interval of 0.
subtract(delay, interval) ==
    IF interval # 0 /\ delay % (IF interval < 0 THEN -interval ELSE interval) = 0
    THEN 1 ELSE 0

\* floor(delay / checkpoint_interval), for an interval that is not 0 and a
\* delay that is not negative.
floor_quotient(delay, interval) ==
    IF interval > 0
    THEN delay \div interval
    ELSE -((delay + (-interval) - 1) \div (-interval))

\* floor(delay / checkpoint_interval) > 0: the quotient is infinite for an
\* interval of 0.
floor_is_positive(delay, interval) ==
    interval = 0 \/ floor_quotient(delay, interval) > 0

\* The delay with the time of the dumps: changed only if at least one
\* interval fits in it.
delay_with_dumps(delay, interval, dump) ==
    IF floor_is_positive(delay, interval)
    THEN IF interval = 0
         THEN NotFinite
         ELSE (floor_quotient(delay, interval) - subtract(delay, interval)) * dump + delay
    ELSE delay

\* The values Young's formula, error * sqrt(2 * dump_time * M) - dump_time,
\* takes over the error rates and the mean times between failures: 0 for a
\* dump time of 0.
optimal_intervals(dump) == IF dump = 0 THEN {0} ELSE 0..MaxInterval

\* Job::checkpoint_interval after the block that computes it: the member of
\* the description, replaced by Young's formula, replaced by the global
\* interval less the dump time.
interval_NoDumpTime(described, optimal, dump) ==
    IF global_checkpointing_interval # -1
    THEN global_checkpointing_interval
    ELSE IF compute_checkpointing THEN optimal ELSE described

effective_interval(described, optimal, dump) ==
    IF global_checkpointing_interval # -1
    THEN global_checkpointing_interval - dump
    ELSE IF compute_checkpointing THEN optimal ELSE described

\* The performance factor on the profile's data, for a job that is not a
\* resubmission (no "#" in its name).
scaled_work(work) == IF resubmitted THEN work ELSE performance_factor * work

\* The branch of Job::from_json on a DELAY profile, for a job whose
\* description gives the checkpoint interval and the dump time "described"
\* and "described_dump": the performance factor on the profile's data, then,
\* with checkpointing on, the job's times and the dumps on the delay.
DELAY_branch(described, described_dump) ==
    IF checkpointing_on /\ ~resubmitted
    THEN \E mtbf_set \in BOOLEAN :
         \E optimal \in optimal_intervals(performance_factor * described_dump) :
            LET dump == performance_factor * described_dump
                interval == effective_interval(described, optimal, dump)
            IN  IF compute_checkpointing /\ (~mtbf_set \/ optimal <= 0)
                THEN /\ aborted' = TRUE
                     /\ UNCHANGED <<from_json_pc, profile_work, real_work,
                                    checkpoint_interval, dump_time>>
                ELSE /\ dump_time' = dump
                     /\ checkpoint_interval' = interval
                     /\ IF original_work = -1
                        THEN /\ real_work' = scaled_work(profile_work)
                             /\ profile_work' =
                                   delay_with_dumps(scaled_work(profile_work), interval, dump)
                        ELSE /\ profile_work' = scaled_work(profile_work)
                             /\ UNCHANGED real_work
                     /\ from_json_pc' = "done"
                     /\ UNCHANGED aborted
    ELSE /\ profile_work' = scaled_work(profile_work)
         /\ from_json_pc' = "done"
         /\ UNCHANGED <<aborted, real_work, checkpoint_interval, dump_time>>

\* Job::from_json on a job with a DELAY profile.
from_json_DELAY ==
    /\ ~aborted
    /\ from_json_pc = "profile"
    /\ profile_type = "DELAY"
    /\ DELAY_branch(checkpoint_interval, dump_time)
    /\ UNCHANGED <<profile_type, original_work, j_walltime, checkpointing_on,
                   resubmitted, from_workload, performance_factor,
                   global_checkpointing_interval, compute_checkpointing>>

\* Job::from_json on a job with a PARALLEL_HOMOGENEOUS profile: the cpu is
\* converted to a time and back, and a positive wall time gets the dumps
\* counted on the lengthened delay.
from_json_PARALLEL_HOMOGENEOUS ==
    /\ ~aborted
    /\ from_json_pc = "profile"
    /\ profile_type = "PARALLEL_HOMOGENEOUS"
    /\ IF checkpointing_on /\ from_workload
       THEN \E mtbf_set \in BOOLEAN :
            \E optimal \in optimal_intervals(performance_factor * dump_time) :
               LET dump == performance_factor * dump_time
                   interval == effective_interval(checkpoint_interval, optimal, dump)
                   cpu == scaled_work(profile_work)
                   delay == delay_with_dumps(cpu \div speed, interval, dump)
               IN  IF compute_checkpointing /\ (~mtbf_set \/ optimal <= 0)
                   THEN /\ aborted' = TRUE
                        /\ UNCHANGED <<from_json_pc, profile_work, real_work,
                                       checkpoint_interval, dump_time, j_walltime>>
                   ELSE /\ dump_time' = dump
                        /\ checkpoint_interval' = interval
                        /\ IF original_work = -1
                           THEN /\ real_work' = cpu
                                /\ profile_work' =
                                      IF delay = NotFinite THEN NotFinite ELSE delay * speed
                                /\ j_walltime' =
                                      IF j_walltime > 0
                                      THEN IF interval = 0
                                           THEN NotFinite
                                           ELSE (floor_quotient(delay, interval)
                                                   - subtract(cpu \div speed, interval))
                                                    * dump + j_walltime
                                      ELSE j_walltime
                           ELSE /\ profile_work' = cpu
                                /\ UNCHANGED <<real_work, j_walltime>>
                        /\ from_json_pc' = "done"
                        /\ UNCHANGED aborted
       ELSE /\ profile_work' = scaled_work(profile_work)
            /\ from_json_pc' = "done"
            /\ UNCHANGED <<aborted, real_work, checkpoint_interval, dump_time, j_walltime>>
    /\ UNCHANGED <<profile_type, original_work, checkpointing_on,
                   resubmitted, from_workload, performance_factor,
                   global_checkpointing_interval, compute_checkpointing>>

(***************************************************************************)
(* parse_main_args and the beginning of main: the checks on the command    *)
(* line, the return code and the decision to run the simulation.           *)
(***************************************************************************)

\* The checks of parse_main_args that log an error and set a bit of
\* return_code, with the bit.
coded_checks ==
    [platform_file |-> 1, workload_file |-> 2, workflow_file |-> 4,
     workflow_start_inconsistent |-> 8, cut_workflow_file |-> 16,
     start_time_negative |-> 32, start_time_not_double |-> 64, events_file |-> 2]

\* The checks of parse_main_args that log an error and set only "error".
uncoded_checks ==
    {"redis_port", "profile_reuse_without_dynamic_registration", "mmax", "verbosity",
     "workflow_limit_negative", "workflow_limit_not_integer"}

\* The xbt_assert of parse_main_args on the format of --copy.
asserted_checks == {"copy_format"}

Checks == DOMAIN coded_checks \cup uncoded_checks \cup asserted_checks

\* The cut workflow files are looked at only if --workflow-start was parsed
\* into as many files as times.
checked(ds) ==
    IF "workflow_start_inconsistent" \in ds
    THEN ds \ {"cut_workflow_file", "start_time_negative", "start_time_not_double"}
    ELSE ds

RECURSIVE bit_or(_)
\* return_code |= bit, for the bits of a set of distinct powers of two.
bit_or(bits) ==
    IF bits = {} THEN 0
    ELSE LET b == CHOOSE x \in bits : TRUE IN b + bit_or(bits \ {b})

MainInit ==
    /\ main_pc = "start"
    /\ defects \in SUBSET Checks
    /\ dump_execution_context \in BOOLEAN
    /\ logged_errors = {}
    /\ return_code = 1
    /\ run_simulation = FALSE
    /\ exit_code = -1

MainDefault ==
    /\ main_pc = "start"
    /\ defects = {}
    /\ dump_execution_context = FALSE
    /\ logged_errors = {}
    /\ return_code = 1
    /\ run_simulation = FALSE
    /\ exit_code = -1

\* parse_main_args: return_code is reset to 0 before the checks; every
\* failed check logs an error and sets "error", and only some set a bit of
\* return_code.  run_simulation is !error.
parse_main_args ==
    /\ ~aborted
    /\ main_pc = "start"
    /\ IF defects \cap asserted_checks # {}
       THEN /\ aborted' = TRUE
            /\ return_code' = 0
            /\ UNCHANGED <<main_pc, logged_errors, run_simulation>>
       ELSE LET failed == checked(defects)
                error == failed # {}
            IN  /\ logged_errors' = failed
                /\ return_code' = bit_or({coded_checks[d] : d \in failed \cap DOMAIN coded_checks})
                /\ run_simulation' = ~error
                /\ main_pc' = "parsed"
                /\ UNCHANGED aborted
    /\ UNCHANGED <<defects, dump_execution_context, exit_code>>

\* main, if (main_args.dump_execution_context): prints the context, returns 0.
main_dumps_execution_context ==
    /\ ~aborted
    /\ main_pc = "parsed"
    /\ dump_execution_context
    /\ exit_code' = 0
    /\ main_pc' = "exited"
    /\ UNCHANGED <<aborted, defects, dump_execution_context, logged_errors, return_code,
                   run_simulation>>

\* main, if (!run_simulation) return return_code.
main_returns ==
    /\ ~aborted
    /\ main_pc = "parsed"
    /\ ~dump_execution_context
    /\ ~run_simulation
    /\ exit_code' = return_code
    /\ main_pc' = "exited"
    /\ UNCHANGED <<aborted, defects, dump_execution_context, logged_errors, return_code,
                   run_simulation>>

\* main goes on to configure and run the simulation.
main_runs_simulation ==
    /\ ~aborted
    /\ main_pc = "parsed"
    /\ ~dump_execution_context
    /\ run_simulation
    /\ main_pc' = "simulation"
    /\ UNCHANGED <<aborted, defects, dump_execution_context, logged_errors, return_code,
                   run_simulation, exit_code>>

(***************************************************************************)
(* The Jobs container: add_job, delete_job and exists.                     *)
(***************************************************************************)

\* The identifiers add_job and delete_job are called with.
JobIdentifiers == 1..MaxJobIds

\* no call of delete_job yet
NoDelete == [called |-> FALSE, stored |-> FALSE, rejected |-> FALSE, null_read |-> FALSE]

\* A Jobs instance after construction.
JobsMapInit ==
    /\ jobs_map = {}
    /\ jobs_met = {}
    /\ last_delete = NoDelete

\* Jobs::exists: looks the identifier up in _jobs_met.
exists(job_id) == job_id \in jobs_met

\* Jobs::add_job.
add_job ==
    /\ ~aborted
    /\ \E id \in JobIdentifiers :
          IF ~exists(id)
          THEN /\ jobs_map' = jobs_map \cup {id}
               /\ jobs_met' = jobs_met \cup {id}
               /\ UNCHANGED aborted
          ELSE /\ aborted' = TRUE
               /\ UNCHANGED <<jobs_map, jobs_met>>
    /\ UNCHANGED last_delete

\* Jobs::delete_job: erases from _jobs only.  On an identifier that is met
\* but no longer in _jobs, _jobs[job_id] is a null JobPtr and reading its
\* profile is undefined behaviour: the process crashes or goes on.
delete_job ==
    /\ ~aborted
    /\ \E id \in JobIdentifiers :
          IF exists(id)
          THEN /\ jobs_map' = jobs_map \ {id}
               /\ UNCHANGED jobs_met
               /\ IF id \in jobs_map
                  THEN UNCHANGED aborted
                  ELSE aborted' \in BOOLEAN
               /\ last_delete' = [called |-> TRUE, stored |-> id \in jobs_map,
                                  rejected |-> FALSE, null_read |-> id \notin jobs_map]
          ELSE /\ aborted' = TRUE
               /\ UNCHANGED <<jobs_map, jobs_met>>
               /\ last_delete' = [called |-> TRUE, stored |-> id \in jobs_map,
                                  rejected |-> TRUE, null_read |-> FALSE]

(***************************************************************************)
(* The dynamic-registration gate: the NOTIFY events registration_finished  *)
(* and continue_registration, and the checks of handle_register_job and    *)
(* handle_register_profile.  The reader sends each message to the server   *)
(* with a blocking send; the server handles a message to completion        *)
(* before the reader goes on.                                              *)
(***************************************************************************)

\* The events of a reply that touch the gate.
RegistrationEvents ==
    {"registration_finished", "continue_registration", "REGISTER_JOB", "REGISTER_PROFILE"}

RegistrationReplies == SeqsUpTo(RegistrationEvents, MaxRegistrationEvents)

RegistrationInit ==
    /\ registration_sched_enabled \in BOOLEAN
    /\ registration_sched_finished = FALSE
    /\ reg_reply = <<>>
    /\ reg_pos = 1
    /\ reg_pc = "wait"
    /\ in_flight = "none"
    /\ nb_replies = 0
    /\ received = <<>>
    /\ accepted = {}

RegistrationDefault ==
    /\ registration_sched_enabled = FALSE
    /\ registration_sched_finished = FALSE
    /\ reg_reply = <<>>
    /\ reg_pos = 1
    /\ reg_pc = "wait"
    /\ in_flight = "none"
    /\ nb_replies = 0
    /\ received = <<>>
    /\ accepted = {}

\* The two assertions, were the one on registration_sched_finished missing.
registration_asserts_NoFinished == registration_sched_enabled

\* The two xbt_asserts that open handle_register_job and
\* handle_register_profile.
registration_asserts ==
    /\ registration_sched_enabled
    /\ ~registration_sched_finished

\* A reply arrives and parse_and_apply_message enters its loop.
registration_reply_arrives ==
    /\ ~aborted
    /\ reg_pc = "wait"
    /\ nb_replies < MaxRegistrationReplies
    /\ \E events_array \in RegistrationReplies : reg_reply' = events_array
    /\ reg_pos' = 1
    /\ reg_pc' = "events"
    /\ nb_replies' = nb_replies + 1
    /\ UNCHANGED <<aborted, registration_sched_enabled, registration_sched_finished,
                   in_flight, received, accepted>>

\* handle_notify on registration_finished or continue_registration: sends
\* END_DYNAMIC_REGISTER or CONTINUE_DYNAMIC_REGISTER to the server.
handle_notify_registration ==
    /\ ~aborted
    /\ reg_pc = "events"
    /\ reg_pos <= Len(reg_reply)
    /\ reg_reply[reg_pos] \in {"registration_finished", "continue_registration"}
    /\ received' = Append(received, reg_reply[reg_pos])
    /\ in_flight' = IF reg_reply[reg_pos] = "registration_finished"
                    THEN "END_DYNAMIC_REGISTER"
                    ELSE "CONTINUE_DYNAMIC_REGISTER"
    /\ reg_pc' = "sending"
    /\ UNCHANGED <<aborted, registration_sched_enabled, registration_sched_finished,
                   reg_reply, reg_pos, nb_replies, accepted>>

\* handle_register_job and handle_register_profile: the two assertions, then
\* the message to the server.
handle_register(type, message) ==
    /\ ~aborted
    /\ reg_pc = "events"
    /\ reg_pos <= Len(reg_reply)
    /\ reg_reply[reg_pos] = type
    /\ received' = Append(received, type)
    /\ IF registration_asserts
       THEN /\ accepted' = accepted \cup {Len(received) + 1}
            /\ in_flight' = message
            /\ reg_pc' = "sending"
            /\ UNCHANGED aborted
       ELSE /\ aborted' = TRUE
            /\ UNCHANGED <<accepted, in_flight, reg_pc>>
    /\ UNCHANGED <<registration_sched_enabled, registration_sched_finished, reg_reply,
                   reg_pos, nb_replies>>

handle_register_job_gate == handle_register("REGISTER_JOB", "JOB_REGISTERED_BY_DP")

handle_register_profile_gate == handle_register("REGISTER_PROFILE", "PROFILE_REGISTERED_BY_DP")

\* The server takes the message and handles it to completion: the two
\* registration notifications flip the gate; the reader's send returns.
server_on_registration_message ==
    /\ ~aborted
    /\ reg_pc = "sending"
    /\ registration_sched_finished' =
          CASE in_flight = "END_DYNAMIC_REGISTER" -> TRUE
            [] in_flight = "CONTINUE_DYNAMIC_REGISTER" -> FALSE
            [] OTHER -> registration_sched_finished
    /\ in_flight' = "none"
    /\ reg_pos' = reg_pos + 1
    /\ reg_pc' = "events"
    /\ UNCHANGED <<aborted, registration_sched_enabled, reg_reply, nb_replies, received,
                   accepted>>

\* The loop of parse_and_apply_message is over.
registration_reply_handled ==
    /\ ~aborted
    /\ reg_pc = "events"
    /\ reg_pos > Len(reg_reply)
    /\ reg_pc' = "wait"
    /\ UNCHANGED <<aborted, registration_sched_enabled, registration_sched_finished,
                   reg_reply, reg_pos, in_flight, nb_replies, received, accepted>>

(***************************************************************************)
(* JsonProtocolReader::handle_execute_job: the checks on the "data" object *)
(* of an EXECUTE_JOB event that has a job_id and an alloc.                 *)
(***************************************************************************)

\* The members of "mapping": an executor and a resource each, in the order
\* of the JSON object, which may repeat a key.
MappingMembers ==
    [executor : 0..MaxMappingMembers, resource : (-1)..MaxAllocated]

\* storage_mapping and additional_io_job: absent, or present with contents
\* that pass or fail the assertions made on them.
OptionalMember == {"absent", "valid", "invalid"}

\* The "data" objects: nb_allocated is the size of the interval set read
\* from "alloc".
ExecuteData ==
    [nb_allocated : 0..MaxAllocated,
     HasMapping : BOOLEAN,
     mapping : SeqsUpTo(MappingMembers, MaxMappingMembers),
     storage_mapping : OptionalMember,
     additional_io_job : OptionalMember]

ExecuteInit ==
    /\ execute_data \in {d \in ExecuteData : ~d.HasMapping => d.mapping = <<>>}
    /\ execute_pc = "event"
    /\ allocation_mapping = <<>>
    /\ sched_execute_job_sent = 0

ExecuteDefault ==
    /\ execute_data = [nb_allocated |-> 0, HasMapping |-> FALSE, mapping |-> <<>>,
                       storage_mapping |-> "absent", additional_io_job |-> "absent"]
    /\ execute_pc = "event"
    /\ allocation_mapping = <<>>
    /\ sched_execute_job_sent = 0

\* data_object.MemberCount(): job_id, alloc and the optional members.
MemberCount(d) ==
    2 + (IF d.HasMapping THEN 1 ELSE 0)
      + (IF d.storage_mapping # "absent" THEN 1 ELSE 0)
      + (IF d.additional_io_job # "absent" THEN 1 ELSE 0)

\* The executors of mapping_map.
mapping_keys(members) == {members[i].executor : i \in 1..Len(members)}

\* mapping_map[executor] = resource, member after member: the last member
\* of a key is the one kept.
mapping_map(members) ==
    [executor \in mapping_keys(members) |->
        LET last == CHOOSE i \in 1..Len(members) :
                       /\ members[i].executor = executor
                       /\ \A k \in 1..Len(members) : members[k].executor = executor => k <= i
        IN  members[last].resource]

\* The assertions on the mapping, were the resource not checked.
mapping_asserts_NoResource(members, nb_allocated_resources) ==
    /\ Len(members) > 0
    /\ mapping_keys(members) = 0..(Cardinality(mapping_keys(members)) - 1)

\* The assertions on the mapping: it is not empty, the keys of mapping_map in
\* increasing order are 0, 1, 2, ... and each resource is in
\* [0, nb_allocated_resources).
mapping_asserts(members, nb_allocated_resources) ==
    /\ Len(members) > 0
    /\ mapping_keys(members) = 0..(Cardinality(mapping_keys(members)) - 1)
    /\ \A executor \in mapping_keys(members) :
          /\ mapping_map(members)[executor] >= 0
          /\ mapping_map(members)[executor] < nb_allocated_resources

\* handle_execute_job, from its first assertion to send_message_at_time.
handle_execute_job_event ==
    /\ ~aborted
    /\ execute_pc = "event"
    /\ execute_pc' = "done"
    /\ IF /\ MemberCount(execute_data) \in {2, 3}
          /\ execute_data.nb_allocated > 0
          /\ execute_data.HasMapping =>
                mapping_asserts(execute_data.mapping, execute_data.nb_allocated)
          /\ execute_data.storage_mapping # "invalid"
          /\ execute_data.additional_io_job # "invalid"
       THEN /\ allocation_mapping' =
                  IF execute_data.HasMapping
                  THEN [i \in 1..Cardinality(mapping_keys(execute_data.mapping)) |->
                           mapping_map(execute_data.mapping)[i - 1]]
                  ELSE <<>>
            /\ sched_execute_job_sent' = sched_execute_job_sent + 1
            /\ UNCHANGED aborted
       ELSE /\ aborted' = TRUE
            /\ UNCHANGED <<allocation_mapping, sched_execute_job_sent>>
    /\ UNCHANGED execute_data

(***************************************************************************)
(* JsonProtocolReader::handle_register_profile and the workload store:     *)
(* Workload::new_dynamic_workload, Workload::new_static_workload.          *)
(***************************************************************************)

\* Workload names: 0 is the static workload loaded from a file, the others
\* are names the scheduler may give.
WorkloadNames == 0..MaxDynamicWorkloads

DynamicProfileNames == 1..MaxDynamicProfiles

NoRegistration == [workload_name |-> 0, profile_name |-> 0, new_workload |-> FALSE]

StoreInit ==
    /\ workloads = {0}
    /\ \E static_profiles \in SUBSET DynamicProfileNames :
          workload_profiles = [w \in WorkloadNames |-> IF w = 0 THEN static_profiles ELSE {}]
    /\ last_registered = NoRegistration

StoreDefault ==
    /\ workloads = {0}
    /\ workload_profiles = [w \in WorkloadNames |-> {}]
    /\ last_registered = NoRegistration

\* Workload::new_static_workload reads main_arguments->checkpointing_on and
\* ten more members: with a null main_arguments this is undefined behaviour,
\* the process crashes (TRUE) or goes on with whatever was read (FALSE).
new_static_workload(main_arguments_is_null) ==
    IF main_arguments_is_null THEN {TRUE, FALSE} ELSE {FALSE}

\* Workload::new_dynamic_workload: new_static_workload(workload_name,
\* "dynamic", nullptr, nullptr).
new_dynamic_workload == new_static_workload(TRUE)

\* handle_register_profile with a well-formed data object: the assertions
\* on the registration gate, the workload retrieved or created, the profile
\* added unless it exists, and the message to the server.
handle_register_profile ==
    /\ ~aborted
    /\ \E workload_name \in WorkloadNames, profile_name \in DynamicProfileNames :
          /\ last_registered' = [workload_name |-> workload_name,
                                 profile_name |-> profile_name,
                                 new_workload |-> workload_name \notin workloads]
          /\ IF ~registration_asserts
             THEN /\ aborted' = TRUE
                  /\ UNCHANGED <<workloads, workload_profiles>>
             ELSE \E crashed \in (IF workload_name \in workloads
                                  THEN {FALSE} ELSE new_dynamic_workload) :
                     IF crashed \/ profile_name \in workload_profiles[workload_name]
                     THEN /\ aborted' = TRUE
                          /\ workloads' = IF crashed THEN workloads
                                          ELSE workloads \cup {workload_name}
                          /\ UNCHANGED workload_profiles
                     ELSE /\ workloads' = workloads \cup {workload_name}
                          /\ workload_profiles' =
                                [workload_profiles EXCEPT ![workload_name] = @ \cup {profile_name}]
                          /\ UNCHANGED aborted

(***************************************************************************)
(* Call-me-later timers: handle_call_me_later and the multimap ordered by  *)
(* batsim_tools::call_me_later_compare.  A timer is its target_time and    *)
(* the rank of its insertion.                                              *)
(***************************************************************************)

TargetTimes == 0..MaxTargetTime

\* No snapshot has been taken.
NoVariablesChkpt ==
    [written |-> FALSE, clock |-> 0, call_me_laters |-> <<>>, before |-> <<>>, after |-> <<>>]

TimersInit ==
    /\ call_me_laters = <<>>
    /\ nb_call_me_laters = 0
    /\ fired = <<>>
    /\ variables_chkpt = NoVariablesChkpt

\* The comparison, were it reversed.
call_me_later_compare_Reversed(lhs, rhs) == lhs > rhs

\* batsim_tools::call_me_later_compare::operator().
call_me_later_compare(lhs, rhs) == lhs < rhs

\* std::multimap::insert under call_me_later_compare: the new element goes
\* before the first element its key compares less than, after every other.
multimap_insert(ms, element) ==
    LET after == {i \in 1..Len(ms) :
                     call_me_later_compare(element.target_time, ms[i].target_time)}
        at == IF after = {} THEN Len(ms) + 1
              ELSE CHOOSE i \in after : \A k \in after : i <= k
    IN  SubSeq(ms, 1, at - 1) \o <<element>> \o SubSeq(ms, at, Len(ms))

\* handle_call_me_later with a well-formed data object: a target_time in the
\* past only logs a warning; the server stores the timer.
handle_call_me_later ==
    /\ ~aborted
    /\ nb_call_me_laters < MaxTimers
    /\ \E target_time \in TargetTimes :
          call_me_laters' = multimap_insert(call_me_laters,
                                            [target_time |-> target_time,
                                             rank |-> nb_call_me_laters + 1])
    /\ nb_call_me_laters' = nb_call_me_laters + 1
    /\ UNCHANGED <<aborted, fired, variables_chkpt>>

\* The server consumes the first timer of the multimap.
call_me_later_fires ==
    /\ ~aborted
    /\ call_me_laters # <<>>
    /\ fired' = Append(fired, Head(call_me_laters))
    /\ call_me_laters' = Tail(call_me_laters)
    /\ UNCHANGED <<aborted, nb_call_me_laters, variables_chkpt>>

\* std::multimap::upper_bound: the index of the first element whose key is
\* greater than the key given, Len + 1 if there is none.
upper_bound(ms, key) ==
    LET greater == {i \in 1..Len(ms) : call_me_later_compare(key, ms[i].target_time)}
    IN  IF greater = {} THEN Len(ms) + 1
        ELSE CHOOSE i \in greater : \A k \in greater : i <= k

\* std::multimap::lower_bound: the index of the first element whose key is
\* not less than the key given, Len + 1 if there is none.
lower_bound(ms, key) ==
    LET not_less == {i \in 1..Len(ms) : ~call_me_later_compare(ms[i].target_time, key)}
    IN  IF not_less = {} THEN Len(ms) + 1
        ELSE CHOOSE i \in not_less : \A k \in not_less : i <= k

\* The end of Workload::write_out_batsim_checkpoint, at the clock "now": the
\* timers below the clock are erased from the context's multimap, and the
\* multimap is written to batsim_variables.chkpt.
write_out_call_me_laters ==
    /\ ~aborted
    /\ \E now \in TargetTimes :
          LET gt_or_eq_to_now == lower_bound(call_me_laters, now)
              kept == SubSeq(call_me_laters, gt_or_eq_to_now, Len(call_me_laters))
          IN  /\ call_me_laters' = kept
              /\ variables_chkpt' = [written |-> TRUE, clock |-> now,
                                     call_me_laters |-> kept,
                                     before |-> call_me_laters, after |-> kept]
    /\ UNCHANGED <<aborted, nb_call_me_laters, fired>>

(***************************************************************************)
(* One profile of workload->profiles and the jobs that name it.  Every     *)
(* Job::from_json takes the Profile object from the workload and edits its *)
(* data in place; Jobs::get_jobs_as_copied_vector parses every job again   *)
(* from its json_description, where "profile" has become the job's number. *)
(***************************************************************************)

\* No job names the profile.
SharedDefault ==
    /\ file_work = 0
    /\ nb_from_json = 0
    /\ nb_copies = 0
    /\ named_after_job = FALSE

\* A DELAY profile read from the workload file, before the jobs are: no
\* original_delay, the jobs are not resubmissions, the intervals come from
\* the descriptions of the jobs.
SharedInit ==
    /\ from_json_pc = "profile"
    /\ profile_type = "DELAY"
    /\ profile_work \in 1..MaxDelay
    /\ file_work = profile_work
    /\ original_work = -1
    /\ real_work = -1
    /\ checkpoint_interval = -1
    /\ dump_time = -1
    /\ j_walltime = -1
    /\ checkpointing_on \in BOOLEAN
    /\ resubmitted = FALSE
    /\ from_workload = TRUE
    /\ performance_factor \in 1..MaxFactor
    /\ global_checkpointing_interval = -1
    /\ compute_checkpointing = FALSE
    /\ nb_from_json = 0
    /\ nb_copies = 0
    /\ named_after_job \in BOOLEAN

\* Job::from_json, while the workload is loaded, on one more job whose
\* "profile" is the shared profile.
Job_from_json ==
    /\ ~aborted
    /\ nb_copies = 0
    /\ nb_from_json < MaxReferences
    /\ \E described \in 1..MaxInterval :
       \E described_dump \in 0..MaxDumpTime :
          DELAY_branch(described, described_dump)
    /\ nb_from_json' = nb_from_json + 1
    /\ UNCHANGED <<profile_type, original_work, j_walltime, checkpointing_on,
                   resubmitted, from_workload, performance_factor,
                   global_checkpointing_interval, compute_checkpointing,
                   file_work, nb_copies, named_after_job>>

\* Jobs::get_jobs_as_copied_vector: Job::from_json on the json_description
\* of every job.  The description names the profile by the job's number: the
\* lookup succeeds only for the job the profile is named after, and the
\* times it reads are those the first parse wrote.
Jobs_get_jobs_as_copied_vector ==
    /\ ~aborted
    /\ nb_from_json >= 1
    /\ nb_copies < MaxReparses
    /\ IF nb_from_json = 1 /\ named_after_job
       THEN /\ DELAY_branch(checkpoint_interval, dump_time)
            /\ nb_copies' = nb_copies + 1
       ELSE /\ aborted' = TRUE
            /\ UNCHANGED <<from_json_pc, profile_work, real_work, checkpoint_interval,
                           dump_time, nb_copies>>
    /\ UNCHANGED <<profile_type, original_work, j_walltime, checkpointing_on,
                   resubmitted, from_workload, performance_factor,
                   global_checkpointing_interval, compute_checkpointing,
                   file_work, nb_from_json, named_after_job>>

(***************************************************************************)
(* Workload::change_submits: the submission times of the jobs are redrawn  *)
(* and shuffled.  The same workload file is loaded twice with the same     *)
(* options.                                                                *)
(***************************************************************************)

SubmitJobs == 1..MaxSubmitJobs

\* SubmissionTimes::seed == "".
NoSeed == -1

\* No --submission-time option: submission_time is nullptr.
SubmitsDefault ==
    /\ file_subtime = [j \in SubmitJobs |-> 0]
    /\ sub_purpose = [j \in SubmitJobs |-> "job"]
    /\ st_random = "none"
    /\ st_value1 = 0
    /\ st_shuffle = FALSE
    /\ st_seed = NoSeed
    /\ before_shuffle = <<>>
    /\ loaded = <<>>

\* A workload file, where job 1 may be a reservation, and a
\* --submission-time option.
SubmitsInit ==
    /\ file_subtime \in [SubmitJobs -> 0..MaxSubtime]
    /\ \E first \in {"job", "reservation"} :
          sub_purpose = [j \in SubmitJobs |-> IF j = 1 THEN first ELSE "job"]
    /\ st_random \in {"none", "fixed", "exp", "unif"}
    /\ st_value1 \in {0, MaxValue1}
    /\ st_shuffle \in BOOLEAN
    /\ st_seed \in {NoSeed} \cup 0..MaxSeed
    /\ before_shuffle = <<>>
    /\ loaded = <<>>

\* Jobs::get_jobs_as_copied_vector: the jobs that are not reservations.
copied_jobs_of(purposes) == {j \in SubmitJobs : purposes[j] # "reservation"}

\* std::sort with sort_job_by_submit: by submission time, then by job number.
RECURSIVE sorted_by_submit(_, _)
sorted_by_submit(times, S) ==
    IF S = {}
    THEN <<>>
    ELSE LET first == CHOOSE j \in S :
                         \A k \in S : \/ times[j] < times[k]
                                      \/ times[j] = times[k] /\ j <= k
         IN  <<first>> \o sorted_by_submit(times, S \ {first})

\* The k-th number drawn from the std::mt19937 seeded with s, through the
\* distribution: a fixed function of the seed and of k.
mt19937(s, k) == ((s + 1) * k + s) % (MaxDraw + 1)

\* The submission time of the k-th job in sorted order: k times value1
\* ("fixed"), or the sum of the first k draws ("exp", "unif").
RECURSIVE newSubtime(_, _)
newSubtime(s, k) ==
    IF st_random = "fixed"
    THEN k * st_value1
    ELSE IF k = 0
         THEN 0
         ELSE newSubtime(s, k - 1)
                 + (IF st_random = "unif" THEN st_value1 ELSE 0) + mt19937(s, k)

\* The jobs after the first loop of change_submits, with the generator
\* seeded with s: set_jobs replaces the jobs that were copied.
redrawn(times, s) ==
    LET order == sorted_by_submit(times, copied_jobs_of(sub_purpose))
    IN  [j \in SubmitJobs |->
            IF \E k \in 1..Len(order) : order[k] = j
            THEN newSubtime(s, CHOOSE k \in 1..Len(order) : order[k] = j)
            ELSE times[j]]

\* std::shuffle of the indices, with repetitions.
shuffled_indices_WithRepeats(n) == [1..n -> 1..n]

\* std::shuffle of the indices 1..n: any permutation.
shuffled_indices(n) ==
    {p \in [1..n -> 1..n] : \A i, k \in 1..n : p[i] = p[k] => i = k}

\* The jobs after the shuffle: the i-th job in sorted order gets the time of
\* the indices[i]-th.
shuffled(times, indices) ==
    LET order == sorted_by_submit(times, copied_jobs_of(sub_purpose))
    IN  [j \in SubmitJobs |->
            IF \E i \in 1..Len(order) : order[i] = j
            THEN times[order[indices[CHOOSE i \in 1..Len(order) : order[i] = j]]]
            ELSE times[j]]

\* Workload::change_submits on the jobs of the workload file.  The generator
\* of the values is seeded with the seed, or with the clock; the generator of
\* the shuffle is seeded with a std::random_device.
change_submits ==
    /\ ~aborted
    /\ Len(loaded) < 2
    /\ \E system_clock \in 0..MaxSeed :
       \E indices \in shuffled_indices(Cardinality(copied_jobs_of(sub_purpose))) :
          LET s == IF st_seed = NoSeed THEN system_clock ELSE st_seed
              times == IF st_random = "none" THEN file_subtime
                       ELSE redrawn(file_subtime, s)
          IN  /\ before_shuffle' = Append(before_shuffle, times)
              /\ loaded' = Append(loaded, IF st_shuffle THEN shuffled(times, indices)
                                          ELSE times)
    /\ UNCHANGED <<aborted, file_subtime, sub_purpose, st_random, st_value1,
                   st_shuffle, st_seed>>


(***************************************************************************)
(* BatTask: the task tree of a running job and Job::compute_job_progress.  *)
(* Ratios are kept in hundredths, so that runtime / delay_task_required    *)
(* stays an integer for the delays drawn here.                             *)
(***************************************************************************)
MaxSubTasks == 2

MaxEngineClock == 2

MaxTaskDelay == 2

\* static_cast<unsigned int>(-1), the initial BatTask::current_task_index, written
\* as the int it is cast from: as an unsigned it is 2^32 - 1, above every index
NoTaskIndex == -1

\* the index is one of an element of the vector
in_range(i, v) == i # NoTaskIndex /\ i < Len(v)

\* the initial delay_task_start and delay_task_required
NoDelayTask == -1

\* ptask == nullptr: the parallel task has not started
NoPtask == -1

LeafTypes == {"DELAY", "PARALLEL_HOMOGENEOUS"}

\* a BatTask as its constructor leaves it, for a profile of the given type and delay
BatTask(type, delay) ==
    [type |-> type, delay |-> delay, ptask |-> NoPtask,
     delay_task_start |-> NoDelayTask, delay_task_required |-> NoDelayTask,
     current_task_index |-> NoTaskIndex, current_task_progress_ratio |-> 0]

Leaves ==
    {BatTask("DELAY", d) : d \in 0..MaxTaskDelay} \cup {BatTask("PARALLEL_HOMOGENEOUS", 0)}

LeafSeqs(n) == [1..n -> Leaves]

NoProgressCall ==
    [called |-> FALSE, index |-> NoTaskIndex, accessed |-> <<>>, returned |-> 0, child |-> 0]

ProgressDefault ==
    /\ task = BatTask("DELAY", 0)
    /\ sub_tasks = <<>>
    /\ engine_clock = 0
    /\ progress_call = NoProgressCall

\* the tree of a job that has just been given its task: a leaf, or a sequence of leaves
ProgressInit ==
    /\ \/ /\ task \in Leaves
          /\ sub_tasks = <<>>
       \/ /\ task = BatTask("SEQUENCE", 0)
          /\ \E n \in 1..MaxSubTasks : sub_tasks \in LeafSeqs(n)
    /\ engine_clock = 0
    /\ progress_call = NoProgressCall

\* a leaf starts: a delay records when it started and how long it lasts, a parallel
\* task gets its execution, whose remaining ratio is 1
started(t) ==
    IF t.type = "DELAY"
    THEN [t EXCEPT !.delay_task_start = engine_clock, !.delay_task_required = t.delay]
    ELSE [t EXCEPT !.ptask = 100]

\* the index a sequence moves to when it starts its next child
next_task_index == IF task.current_task_index = NoTaskIndex THEN 0 ELSE task.current_task_index + 1

\* execute_task: a leaf root starts; a sequence starts its next child
execute_task ==
    /\ ~aborted
    /\ \/ /\ task.type \in LeafTypes
          /\ task.delay_task_start = NoDelayTask
          /\ task.ptask = NoPtask
          /\ task' = started(task)
          /\ UNCHANGED sub_tasks
       \/ /\ task.type = "SEQUENCE"
          /\ next_task_index < Len(sub_tasks)
          /\ task' = [task EXCEPT !.current_task_index = next_task_index]
          /\ sub_tasks' = [sub_tasks EXCEPT ![next_task_index + 1] = started(@)]
    /\ UNCHANGED <<aborted, engine_clock, progress_call>>

\* simulated time passes
clock_advances ==
    /\ ~aborted
    /\ engine_clock < MaxEngineClock
    /\ engine_clock' = engine_clock + 1
    /\ UNCHANGED <<aborted, task, sub_tasks, progress_call>>

\* the execution of a started parallel task gets half of its work done
ptask_advances ==
    /\ ~aborted
    /\ \/ /\ task.ptask > 0
          /\ task' = [task EXCEPT !.ptask = @ - 50]
          /\ UNCHANGED sub_tasks
       \/ /\ \E i \in DOMAIN sub_tasks :
                /\ sub_tasks[i].ptask > 0
                /\ sub_tasks' = [sub_tasks EXCEPT ![i].ptask = @ - 50]
          /\ UNCHANGED task
    /\ UNCHANGED <<aborted, engine_clock, progress_call>>

\* xbt_assert(delay_task_start != -1) of compute_leaf_progress fails
leaf_assertion_fails(t) == t.type = "DELAY" /\ t.delay_task_start = NoDelayTask

\* BatTask::compute_leaf_progress: the ratio the leaf stores
compute_leaf_progress(t) ==
    IF t.type = "PARALLEL_HOMOGENEOUS"
    THEN IF t.ptask # NoPtask
         THEN [t EXCEPT !.current_task_progress_ratio = 100 - t.ptask]
         ELSE [t EXCEPT !.current_task_progress_ratio = 0]
    ELSE IF t.type = "DELAY"
         THEN LET runtime == engine_clock - t.delay_task_start
              IN  IF t.delay_task_required = 0
                  THEN [t EXCEPT !.current_task_progress_ratio = 100]
                  ELSE [t EXCEPT !.current_task_progress_ratio =
                                     (runtime * 100) \div t.delay_task_required]
         ELSE t

\* BatTask::compute_tasks_progress on the root: a sequence indexes sub_tasks with
\* current_task_index, unchecked, and has the child compute its own ratio; the
\* root's ratio is not assigned.  An index outside sub_tasks is undefined
\* behaviour: the process crashes, or goes on with whatever it read.
compute_tasks_progress ==
    IF task.type = "SEQUENCE"
    THEN LET i == task.current_task_index
         IN  IF in_range(i, sub_tasks)
             THEN IF leaf_assertion_fails(sub_tasks[i + 1])
                  THEN /\ aborted' = TRUE
                       /\ UNCHANGED <<task, sub_tasks>>
                       /\ progress_call' = [called |-> TRUE, index |-> i, accessed |-> <<i>>,
                                            returned |-> task.current_task_progress_ratio,
                                            child |-> sub_tasks[i + 1].current_task_progress_ratio]
                  ELSE LET child == compute_leaf_progress(sub_tasks[i + 1])
                       IN  /\ sub_tasks' = [sub_tasks EXCEPT ![i + 1] = child]
                           /\ progress_call' = [called |-> TRUE, index |-> i, accessed |-> <<i>>,
                                                returned |-> task.current_task_progress_ratio,
                                                child |-> child.current_task_progress_ratio]
                           /\ UNCHANGED <<aborted, task>>
             ELSE /\ \E crashes \in BOOLEAN : aborted' = crashes
                  /\ progress_call' = [called |-> TRUE, index |-> i, accessed |-> <<i>>,
                                       returned |-> task.current_task_progress_ratio,
                                       child |-> 0]
                  /\ UNCHANGED <<task, sub_tasks>>
    ELSE IF leaf_assertion_fails(task)
         THEN /\ aborted' = TRUE
              /\ progress_call' = [called |-> TRUE, index |-> task.current_task_index,
                                   accessed |-> <<>>,
                                   returned |-> task.current_task_progress_ratio, child |-> 0]
              /\ UNCHANGED <<task, sub_tasks>>
         ELSE LET leaf == compute_leaf_progress(task)
              IN  /\ task' = leaf
                  /\ progress_call' = [called |-> TRUE, index |-> task.current_task_index,
                                       accessed |-> <<>>,
                                       returned |-> leaf.current_task_progress_ratio,
                                       child |-> 0]
                  /\ UNCHANGED <<aborted, sub_tasks>>

\* Job::compute_job_progress: the task exists; its progress is computed and the
\* root task is returned
compute_job_progress ==
    /\ ~aborted
    /\ compute_tasks_progress
    /\ UNCHANGED engine_clock


(***************************************************************************)
(* JobIdentifier::JobIdentifier(const std::string &).  A string is a       *)
(* sequence of characters: a letter, the separator and a digit.            *)
(***************************************************************************)
MaxIdLength == 4

IdChars == {"d", "!", "4"}

IdDigits == {"4"}

IdStrings == UNION {[1..n -> IdChars] : n \in 0..MaxIdLength}

NoJobIdentifier ==
    [outcome |-> "none", _workload_name |-> <<>>, _job_name |-> <<>>, _job_number |-> 0]

IdentifierDefault ==
    /\ job_id_str = <<>>
    /\ job_identifier = NoJobIdentifier

IdentifierInit ==
    /\ job_id_str \in IdStrings
    /\ job_identifier = NoJobIdentifier

\* boost::split(parts, s, is_any_of("!"), token_compress_on): a separator closes
\* the current part and opens a new one; the separators that follow it at once
\* open none
RECURSIVE boost_split(_, _, _, _)
boost_split(s, i, parts, after_separator) ==
    IF i > Len(s) THEN parts
    ELSE IF s[i] = "!"
         THEN IF after_separator
              THEN boost_split(s, i + 1, parts, TRUE)
              ELSE boost_split(s, i + 1, Append(parts, <<>>), TRUE)
         ELSE boost_split(s, i + 1,
                          [parts EXCEPT ![Len(parts)] = Append(@, s[i])], FALSE)

\* the same split with every separator opening a part (token_compress_off)
RECURSIVE boost_split_Uncompressed(_, _, _, _)
boost_split_Uncompressed(s, i, parts, after_separator) ==
    IF i > Len(s) THEN parts
    ELSE IF s[i] = "!"
         THEN boost_split_Uncompressed(s, i + 1, Append(parts, <<>>), TRUE)
         ELSE boost_split_Uncompressed(s, i + 1,
                          [parts EXCEPT ![Len(parts)] = Append(@, s[i])], FALSE)

\* std::stoi converts: the string starts with a digit (these strings hold neither
\* white space nor a sign); otherwise it throws std::invalid_argument
stoi_converts(s) == Len(s) > 0 /\ s[1] \in IdDigits

\* std::stoi: the value of the digits the string starts with
RECURSIVE stoi(_, _, _)
stoi(s, i, value) ==
    IF i > Len(s) \/ s[i] \notin IdDigits THEN value
    ELSE stoi(s, i + 1, value * 10 + 4)

\* JobIdentifier::is_lexically_valid: neither name holds a '!'
is_lexically_valid(workload_name, job_name) ==
    /\ \A i \in DOMAIN workload_name : workload_name[i] # "!"
    /\ \A i \in DOMAIN job_name : job_name[i] # "!"

\* JobIdentifier::JobIdentifier(job_id_str)
JobIdentifier ==
    /\ ~aborted
    /\ job_identifier.outcome = "none"
    /\ LET job_identifier_parts == boost_split(job_id_str, 1, <<<<>>>>, FALSE)
       IN  IF Len(job_identifier_parts) # 2
           THEN /\ aborted' = TRUE
                /\ job_identifier' = [NoJobIdentifier EXCEPT !.outcome = "assertion failed"]
           ELSE IF ~stoi_converts(job_identifier_parts[2])
                THEN /\ aborted' = TRUE
                     /\ job_identifier' = [outcome |-> "std::invalid_argument",
                                           _workload_name |-> job_identifier_parts[1],
                                           _job_name |-> job_identifier_parts[2],
                                           _job_number |-> 0]
                ELSE IF ~is_lexically_valid(job_identifier_parts[1], job_identifier_parts[2])
                     THEN /\ aborted' = TRUE
                          /\ job_identifier' =
                                 [NoJobIdentifier EXCEPT !.outcome = "assertion failed"]
                     ELSE /\ job_identifier' = [outcome |-> "constructed",
                                                _workload_name |-> job_identifier_parts[1],
                                                _job_name |-> job_identifier_parts[2],
                                                _job_number |-> stoi(job_identifier_parts[2], 1, 0)]
                          /\ UNCHANGED aborted
    /\ UNCHANGED job_id_str

InitChkpt ==
    /\ aborted = FALSE
    /\ WriterInit
    /\ ReaderInit
    /\ ChkptInit({1})
    /\ CopyDefault
    /\ LoadDefault
    /\ FromJsonDefault
    /\ MainDefault
    /\ JobsMapInit
    /\ RegistrationDefault
    /\ ExecuteDefault
    /\ StoreDefault
    /\ TimersInit
    /\ SharedDefault
    /\ SubmitsDefault
    /\ ProgressDefault
    /\ IdentifierDefault

NextChkpt ==
    \/ \E j \in JobIds :
          /\ ~started_from_checkpoint
          /\ j \notin jobs
          /\ handle_register_job(j)
          /\ dynamic_registrations' = IF aborted' THEN dynamic_registrations
                                      ELSE dynamic_registrations + 1
          /\ UNCHANGED <<jobIdle, job_progress, nb_actually_completed, notChkpt>>
    \/ \E j \in JobIds :
          /\ ~started_from_checkpoint
          /\ job_submitted(j)
          /\ UNCHANGED <<jobIdle, job_progress, nb_actually_completed,
                         dynamic_registrations, notChkpt>>
    \/ \E j \in JobIds :
          /\ ~started_from_checkpoint
          /\ handle_execute_job(j)
          /\ UNCHANGED <<jobIdle, job_progress, nb_actually_completed,
                         dynamic_registrations, notChkpt>>
    \/ \E j \in JobIds :
          /\ ~started_from_checkpoint
          /\ job_progresses(j)
          /\ UNCHANGED <<jobIdle, nb_actually_completed, dynamic_registrations, notChkpt>>
    \/ \E j \in JobIds :
          /\ ~started_from_checkpoint
          /\ server_on_job_completed(j)
          /\ UNCHANGED <<jobIdle, job_progress, dynamic_registrations, notChkpt>>
    \/ /\ ~started_from_checkpoint
       /\ other_job_completed
       /\ UNCHANGED <<keep, nb_checkpoints, dirs, triggers, workload_json,
                      nb_checkpoint, nb_original_jobs, nb_previously_completed,
                      started_from_checkpoint, dynamic_at_snapshot, restored,
                      job_profile, job_walltime, job_progress,
                      dynamic_registrations, notChkpt>>
    \/ /\ ~started_from_checkpoint
       /\ triggers < MaxSnapshots
       /\ handle_notify_checkpoint
       /\ UNCHANGED notChkpt
    \/ load_from_json_chkpt /\ UNCHANGED notChkpt

SpecChkpt == InitChkpt /\ [][NextChkpt]_vars

\* The rotation of the checkpoint directories, for every value of keep.
InitRotation ==
    /\ aborted = FALSE
    /\ WriterInit
    /\ ReaderInit
    /\ ChkptInit(1..MaxKeep)
    /\ CopyDefault
    /\ LoadDefault
    /\ FromJsonDefault
    /\ MainDefault
    /\ JobsMapInit
    /\ RegistrationDefault
    /\ ExecuteDefault
    /\ StoreDefault
    /\ TimersInit
    /\ SharedDefault
    /\ SubmitsDefault
    /\ ProgressDefault
    /\ IdentifierDefault

NextRotation ==
    \/ \E j \in JobIds :
          /\ job_submitted(j)
          /\ UNCHANGED <<jobIdle, job_progress, nb_actually_completed,
                         dynamic_registrations, notChkpt>>
    \/ /\ triggers < MaxTriggers
       /\ handle_notify_checkpoint
       /\ UNCHANGED notChkpt

SpecRotation == InitRotation /\ [][NextRotation]_vars

InitJobs ==
    /\ aborted = FALSE
    /\ WriterInit
    /\ ReaderInit
    /\ JobsInit
    /\ ChkptDefault
    /\ CopyDefault
    /\ LoadDefault
    /\ FromJsonDefault
    /\ MainDefault
    /\ JobsMapInit
    /\ RegistrationDefault
    /\ ExecuteDefault
    /\ StoreDefault
    /\ TimersInit
    /\ SharedDefault
    /\ SubmitsDefault
    /\ ProgressDefault
    /\ IdentifierDefault

NextJobs ==
    \/ \E j \in JobIds : handle_register_job(j) /\ UNCHANGED notJobs
    \/ \E j \in JobIds : handle_execute_job(j) /\ UNCHANGED notJobs
    \/ \E j \in JobIds : job_actor_finishes(j) /\ UNCHANGED notJobs
    \/ \E j \in JobIds : handle_kill_job(j) /\ UNCHANGED notJobs
    \/ \E j \in JobIds, state \in SentStates :
           handle_change_job_state(j, state) /\ UNCHANGED notJobs

\* An execution actor runs a profile of finite work under a finite wall time:
\* it ends unless the simulation is aborted first.
SpecJobs ==
    /\ InitJobs
    /\ [][NextJobs]_vars
    /\ \A j \in JobIds : WF_vars(job_actor_finishes(j) /\ UNCHANGED notJobs)

InitReader ==
    /\ aborted = FALSE
    /\ WriterInit
    /\ ReaderInit
    /\ JobsInit
    /\ ChkptDefault
    /\ CopyDefault
    /\ LoadDefault
    /\ FromJsonDefault
    /\ MainDefault
    /\ JobsMapInit
    /\ RegistrationDefault
    /\ ExecuteDefault
    /\ StoreDefault
    /\ TimersInit
    /\ SharedDefault
    /\ SubmitsDefault
    /\ ProgressDefault
    /\ IdentifierDefault

NextReader ==
    \/ parse_and_apply_message /\ UNCHANGED notReader
    \/ parse_and_apply_event /\ UNCHANGED notReader
    \/ send_sched_ready /\ UNCHANGED notReader
    \/ parse_and_apply_message_returns /\ UNCHANGED notReader

SpecReader == InitReader /\ [][NextReader]_vars

InitWriter ==
    /\ aborted = FALSE
    /\ WriterInit
    /\ ReaderInit
    /\ JobsInit
    /\ ChkptDefault
    /\ CopyDefault
    /\ LoadDefault
    /\ FromJsonDefault
    /\ MainDefault
    /\ JobsMapInit
    /\ RegistrationDefault
    /\ ExecuteDefault
    /\ StoreDefault
    /\ TimersInit
    /\ SharedDefault
    /\ SubmitsDefault
    /\ ProgressDefault
    /\ IdentifierDefault

NextWriter ==
    \/ append_requested_call /\ UNCHANGED notWriter
    \/ append_simulation_begins /\ UNCHANGED notWriter
    \/ append_simulation_ends /\ UNCHANGED notWriter
    \/ append_job_submitted /\ UNCHANGED notWriter
    \/ append_job_completed /\ UNCHANGED notWriter
    \/ append_job_killed /\ UNCHANGED notWriter
    \/ append_from_job_message /\ UNCHANGED notWriter
    \/ append_resource_state_changed /\ UNCHANGED notWriter
    \/ append_query_estimate_waiting_time /\ UNCHANGED notWriter
    \/ append_answer_energy /\ UNCHANGED notWriter
    \/ append_notify /\ UNCHANGED notWriter
    \/ append_notify_resource_event /\ UNCHANGED notWriter
    \/ append_notify_job_fault_event /\ UNCHANGED notWriter
    \/ append_notify_generic_event /\ UNCHANGED notWriter
    \/ clear /\ UNCHANGED notWriter
    \/ generate_current_message /\ UNCHANGED notWriter

SpecWriter == InitWriter /\ [][NextWriter]_vars

\* The round trips of the writer with one append_* that asserts on the date
\* and the one that does not.
NextRoundTrip ==
    \/ append_job_submitted /\ UNCHANGED notWriter
    \/ append_notify_job_fault_event /\ UNCHANGED notWriter
    \/ clear /\ UNCHANGED notWriter
    \/ generate_current_message /\ UNCHANGED notWriter

SpecRoundTrip == InitWriter /\ [][NextRoundTrip]_vars

InitCopy ==
    /\ aborted = FALSE
    /\ WriterInit
    /\ ReaderInit
    /\ JobsInit
    /\ ChkptDefault
    /\ CopyInit
    /\ LoadDefault
    /\ FromJsonDefault
    /\ MainDefault
    /\ JobsMapInit
    /\ RegistrationDefault
    /\ ExecuteDefault
    /\ StoreDefault
    /\ TimersInit
    /\ SharedDefault
    /\ SubmitsDefault
    /\ ProgressDefault
    /\ IdentifierDefault

NextCopy ==
    \/ copyComponents_begins /\ UNCHANGED notCopy
    \/ copyComponents_job /\ UNCHANGED notCopy
    \/ copyComponents_returns /\ UNCHANGED notCopy

SpecCopy == InitCopy /\ [][NextCopy]_vars

InitLoad ==
    /\ aborted = FALSE
    /\ WriterInit
    /\ ReaderInit
    /\ JobsInit
    /\ ChkptDefault
    /\ CopyDefault
    /\ LoadDefault
    /\ FromJsonDefault
    /\ MainDefault
    /\ JobsMapInit
    /\ RegistrationDefault
    /\ ExecuteDefault
    /\ StoreDefault
    /\ TimersInit
    /\ SharedDefault
    /\ SubmitsDefault
    /\ ProgressDefault
    /\ IdentifierDefault

NextLoad ==
    \/ load_nb_res /\ UNCHANGED notLoad
    \/ Profiles_load_from_json /\ UNCHANGED notLoad
    \/ Jobs_load_from_json /\ UNCHANGED notLoad
    \/ load_from_json_returns /\ UNCHANGED notLoad
    \/ simulation_starts /\ UNCHANGED notLoad

SpecLoad == InitLoad /\ [][NextLoad]_vars

InitFromJson ==
    /\ aborted = FALSE
    /\ WriterInit
    /\ ReaderInit
    /\ JobsInit
    /\ ChkptDefault
    /\ CopyDefault
    /\ LoadDefault
    /\ FromJsonInit
    /\ MainDefault
    /\ JobsMapInit
    /\ RegistrationDefault
    /\ ExecuteDefault
    /\ StoreDefault
    /\ TimersInit
    /\ SharedDefault
    /\ SubmitsDefault
    /\ ProgressDefault
    /\ IdentifierDefault

NextFromJson ==
    \/ from_json_DELAY /\ UNCHANGED notFromJson
    \/ from_json_PARALLEL_HOMOGENEOUS /\ UNCHANGED notFromJson

SpecFromJson == InitFromJson /\ [][NextFromJson]_vars

InitMain ==
    /\ aborted = FALSE
    /\ WriterInit
    /\ ReaderInit
    /\ JobsInit
    /\ ChkptDefault
    /\ CopyDefault
    /\ LoadDefault
    /\ FromJsonDefault
    /\ MainInit
    /\ JobsMapInit
    /\ RegistrationDefault
    /\ ExecuteDefault
    /\ StoreDefault
    /\ TimersInit
    /\ SharedDefault
    /\ SubmitsDefault
    /\ ProgressDefault
    /\ IdentifierDefault

NextMain ==
    \/ parse_main_args /\ UNCHANGED notMain
    \/ main_dumps_execution_context /\ UNCHANGED notMain
    \/ main_returns /\ UNCHANGED notMain
    \/ main_runs_simulation /\ UNCHANGED notMain

SpecMain == InitMain /\ [][NextMain]_vars

InitJobsMap ==
    /\ aborted = FALSE
    /\ WriterInit
    /\ ReaderInit
    /\ JobsInit
    /\ ChkptDefault
    /\ CopyDefault
    /\ LoadDefault
    /\ FromJsonDefault
    /\ MainDefault
    /\ JobsMapInit
    /\ RegistrationDefault
    /\ ExecuteDefault
    /\ StoreDefault
    /\ TimersInit
    /\ SharedDefault
    /\ SubmitsDefault
    /\ ProgressDefault
    /\ IdentifierDefault

NextJobsMap ==
    \/ add_job /\ UNCHANGED notJobsMap
    \/ delete_job /\ UNCHANGED notJobsMap

SpecJobsMap == InitJobsMap /\ [][NextJobsMap]_vars

InitRegistration ==
    /\ aborted = FALSE
    /\ WriterInit
    /\ ReaderInit
    /\ JobsInit
    /\ ChkptDefault
    /\ CopyDefault
    /\ LoadDefault
    /\ FromJsonDefault
    /\ MainDefault
    /\ JobsMapInit
    /\ RegistrationInit
    /\ ExecuteDefault
    /\ StoreDefault
    /\ TimersInit
    /\ SharedDefault
    /\ SubmitsDefault
    /\ ProgressDefault
    /\ IdentifierDefault

NextRegistration ==
    \/ registration_reply_arrives /\ UNCHANGED notRegistration
    \/ handle_notify_registration /\ UNCHANGED notRegistration
    \/ handle_register_job_gate /\ UNCHANGED notRegistration
    \/ handle_register_profile_gate /\ UNCHANGED notRegistration
    \/ server_on_registration_message /\ UNCHANGED notRegistration
    \/ registration_reply_handled /\ UNCHANGED notRegistration

SpecRegistration == InitRegistration /\ [][NextRegistration]_vars

InitExecute ==
    /\ aborted = FALSE
    /\ WriterInit
    /\ ReaderInit
    /\ JobsInit
    /\ ChkptDefault
    /\ CopyDefault
    /\ LoadDefault
    /\ FromJsonDefault
    /\ MainDefault
    /\ JobsMapInit
    /\ RegistrationDefault
    /\ ExecuteInit
    /\ StoreDefault
    /\ TimersInit
    /\ SharedDefault
    /\ SubmitsDefault
    /\ ProgressDefault
    /\ IdentifierDefault

NextExecute ==
    \/ handle_execute_job_event /\ UNCHANGED notExecute

SpecExecute == InitExecute /\ [][NextExecute]_vars

InitStore ==
    /\ aborted = FALSE
    /\ WriterInit
    /\ ReaderInit
    /\ JobsInit
    /\ ChkptDefault
    /\ CopyDefault
    /\ LoadDefault
    /\ FromJsonDefault
    /\ MainDefault
    /\ JobsMapInit
    /\ RegistrationInit
    /\ ExecuteDefault
    /\ StoreInit
    /\ TimersInit
    /\ SharedDefault
    /\ SubmitsDefault
    /\ ProgressDefault
    /\ IdentifierDefault

NextStore ==
    \/ handle_register_profile /\ UNCHANGED notStore

SpecStore == InitStore /\ [][NextStore]_vars

InitTimers ==
    /\ aborted = FALSE
    /\ WriterInit
    /\ ReaderInit
    /\ JobsInit
    /\ ChkptDefault
    /\ CopyDefault
    /\ LoadDefault
    /\ FromJsonDefault
    /\ MainDefault
    /\ JobsMapInit
    /\ RegistrationDefault
    /\ ExecuteDefault
    /\ StoreDefault
    /\ TimersInit
    /\ SharedDefault
    /\ SubmitsDefault
    /\ ProgressDefault
    /\ IdentifierDefault

NextTimers ==
    \/ handle_call_me_later /\ UNCHANGED notTimers
    \/ call_me_later_fires /\ UNCHANGED notTimers
    \/ write_out_call_me_laters /\ UNCHANGED notTimers

SpecTimers == InitTimers /\ [][NextTimers]_vars

InitShared ==
    /\ aborted = FALSE
    /\ WriterInit
    /\ ReaderInit
    /\ JobsInit
    /\ ChkptDefault
    /\ CopyDefault
    /\ LoadDefault
    /\ SharedInit
    /\ MainDefault
    /\ JobsMapInit
    /\ RegistrationDefault
    /\ ExecuteDefault
    /\ StoreDefault
    /\ TimersInit
    /\ SubmitsDefault
    /\ ProgressDefault
    /\ IdentifierDefault

NextShared ==
    \/ Job_from_json /\ UNCHANGED notFromJsonShared
    \/ Jobs_get_jobs_as_copied_vector /\ UNCHANGED notFromJsonShared

SpecShared == InitShared /\ [][NextShared]_vars

InitSubmits ==
    /\ aborted = FALSE
    /\ WriterInit
    /\ ReaderInit
    /\ JobsInit
    /\ ChkptDefault
    /\ CopyDefault
    /\ LoadDefault
    /\ FromJsonDefault
    /\ MainDefault
    /\ JobsMapInit
    /\ RegistrationDefault
    /\ ExecuteDefault
    /\ StoreDefault
    /\ TimersInit
    /\ SharedDefault
    /\ SubmitsInit
    /\ ProgressDefault
    /\ IdentifierDefault

NextSubmits ==
    \/ change_submits /\ UNCHANGED notSubmits

SpecSubmits == InitSubmits /\ [][NextSubmits]_vars


InitProgress ==
    /\ aborted = FALSE
    /\ WriterInit
    /\ ReaderInit
    /\ JobsInit
    /\ ChkptDefault
    /\ CopyDefault
    /\ LoadDefault
    /\ FromJsonDefault
    /\ MainDefault
    /\ JobsMapInit
    /\ RegistrationDefault
    /\ ExecuteDefault
    /\ StoreDefault
    /\ TimersInit
    /\ SharedDefault
    /\ SubmitsDefault
    /\ ProgressInit
    /\ IdentifierDefault

NextProgress ==
    \/ execute_task /\ UNCHANGED notProgress
    \/ clock_advances /\ UNCHANGED notProgress
    \/ ptask_advances /\ UNCHANGED notProgress
    \/ compute_job_progress /\ UNCHANGED notProgress

SpecProgress == InitProgress /\ [][NextProgress]_vars


InitIdentifier ==
    /\ aborted = FALSE
    /\ WriterInit
    /\ ReaderInit
    /\ JobsInit
    /\ ChkptDefault
    /\ CopyDefault
    /\ LoadDefault
    /\ FromJsonDefault
    /\ MainDefault
    /\ JobsMapInit
    /\ RegistrationDefault
    /\ ExecuteDefault
    /\ StoreDefault
    /\ TimersInit
    /\ SharedDefault
    /\ SubmitsDefault
    /\ ProgressDefault
    /\ IdentifierInit

NextIdentifier ==
    \/ JobIdentifier /\ UNCHANGED notIdentifier

SpecIdentifier == InitIdentifier /\ [][NextIdentifier]_vars

\* C1: in every generated outbound message the event timestamps are
\* non-decreasing in array order.
C1_OutboundTimestampsNonDecreasing ==
    ~doc.empty =>
        \A i, j \in 1..Len(doc.events) :
            i < j => doc.events[i].timestamp <= doc.events[j].timestamp

\* C2: a scheduler reply whose events are not in non-decreasing timestamp
\* order makes the simulation abort, and the reader never sends SCHED_READY
\* (which lets the server send the next outbound message) for that reply.
C2_OutOfOrderReplyAborts ==
    (\E i, j \in 1..Len(reply.events) :
        /\ i < j
        /\ j < pos
        /\ reply.events[i].timestamp.d > reply.events[j].timestamp.d)
    => (aborted /\ pc # "ready")

\* The inbound event types of the protocol.
C3_AllowedTypes ==
    {"QUERY", "ANSWER", "REJECT_JOB", "EXECUTE_JOB", "CHANGE_JOB_STATE",
     "CALL_ME_LATER", "KILL_JOB", "REGISTER_JOB", "REGISTER_PROFILE",
     "SET_RESOURCE_STATE", "SET_JOB_METADATA", "NOTIFY", "TO_JOB_MSG"}

C3_Valid(i) ==
    /\ reply.now.IsNumber
    /\ reply.events_IsArray
    /\ reply.events[i].timestamp.IsNumber
    /\ reply.events[i].timestamp.d <= reply.now.d
    /\ reply.events[i].type.IsString
    /\ reply.events[i].type.s \in C3_AllowedTypes
    /\ reply.events[i].HasData

\* C3: the handler of an event of a scheduler reply is invoked only if the
\* reply has a numeric now and an events array and the event has a numeric
\* timestamp <= now, an allowed inbound type and a data member; otherwise
\* processing does not go past that event: its handler does not run, the
\* loop does not advance and SCHED_READY is not sent.
C3_HandlerOnlyForValidEvents ==
    /\ \A k \in 1..Len(handled) : C3_Valid(handled[k])
    /\ \A i \in 1..Len(reply.events) :
          ~C3_Valid(i) =>
              /\ \A k \in 1..Len(handled) : handled[k] # i
              /\ pos <= i
              /\ pc # "ready"
    /\ (pc # "wait" \/ aborted) /\ ~(reply.now.IsNumber /\ reply.events_IsArray)
          => aborted /\ handled = <<>>

\* A reply whose first event was handled and whose second event was refused.
C3_Witness ==
    /\ aborted
    /\ Len(reply.events) = 2
    /\ handled = <<1>>
    /\ pos = 2
    /\ ~C3_Valid(2)

\* C4: messages are delivered to the server in timestamp order: A is
\* delivered before B if and only if A.timestamp < B.timestamp, or the
\* timestamps are equal and A was produced earlier.
C4_DeliveredInTimestampOrder ==
    \A a, b \in 1..Len(delivered) :
        (a < b) <=>
            \/ delivered[a].timestamp < delivered[b].timestamp
            \/ /\ delivered[a].timestamp = delivered[b].timestamp
               /\ delivered[a].event_number < delivered[b].event_number

\* The terminal states of a job: COMPLETED_* and REJECTED_*.
C5_TerminalStates ==
    {"JOB_STATE_COMPLETED_SUCCESSFULLY", "JOB_STATE_COMPLETED_FAILED",
     "JOB_STATE_COMPLETED_WALLTIME_REACHED", "JOB_STATE_COMPLETED_KILLED",
     "JOB_STATE_REJECTED_NOT_ENOUGH_RESOURCES",
     "JOB_STATE_REJECTED_NOT_ENOUGH_AVAILABLE_RESOURCES",
     "JOB_STATE_REJECTED_NO_WALLTIME",
     "JOB_STATE_REJECTED_NO_RESERVATION_ALLOCATION"}

C6_RestartContinuesTheRun ==
    restored.done =>
        /\ ~aborted
        /\ \A j \in JobIds :
              workload_json.jobs[j].present =>
                  /\ restored.jobs[j].present
                  /\ restored.jobs[j].work =
                        (profiles[job_profile[j]].work
                            * (100 - workload_json.jobs[j].progress)) \div 100

\* C7: the profile rewritten for a live job holds (1 - p) times the work of
\* the job's profile, p being the progress written for that job, whatever
\* the other jobs of the workload are.
C7_RemainingWorkPerJob ==
    \A j \in JobIds :
        workload_json.jobs[j].present =>
            /\ workload_json.profiles[job_profile[j]].present
            /\ workload_json.profiles[job_profile[j]].work =
                  (profiles[job_profile[j]].original_work
                      * (100 - workload_json.jobs[j].progress)) \div 100

\* The number of jobs written to the snapshot.
C8_LiveJobsWritten == Cardinality({j \in JobIds : workload_json.jobs[j].present})

\* C8: in a snapshot, the live jobs written plus the completed-jobs counter
\* written equal nb_original_jobs plus the jobs registered dynamically up to
\* the snapshot.
C8_SnapshotCountsEveryJobOnce ==
    triggers > 0 =>
        C8_LiveJobsWritten + workload_json.nb_actually_completed
            = workload_json.nb_original_jobs + dynamic_at_snapshot

\* The smaller of two numbers.
C9_Min(a, b) == IF a < b THEN a ELSE b

\* C9: after k checkpoint notifications with keep = N, the directories
\* present are exactly _1 .. _min(k, N), _i holds the i-th most recent
\* snapshot, and no notification failed.
C9_RotationKeepsMostRecent ==
    /\ ~aborted
    /\ \A i \in DirIndexes :
          IF i <= C9_Min(triggers, keep)
          THEN dirs[i] = triggers - i + 1
          ELSE dirs[i] = 0

\* With keep = 2 a third notification has dropped the oldest snapshot and
\* shifted the second one.
C9_Witness ==
    /\ keep >= 2
    /\ triggers > keep
    /\ dirs[1] = triggers
    /\ dirs[keep] = triggers - keep + 1
    /\ ~aborted


(***************************************************************************)
(* The copies of a workload.                                               *)
(***************************************************************************)

\* The numbers drawn during call k of copyComponents.
C10_Draws(k) == {d \in 1..Len(drawn) : drawn[d].by_call = k}

\* C10: with a uniform "+" jitter in each-copy mode, one number is drawn for
\* each copy and every job of that copy is submitted at the submission time
\* of the job it copies plus that number; every call of copyComponents
\* draws its own number.
C10_OneJitterPerCopy ==
    (copy.howMany = "each-copy" /\ copy.symbol = "+") =>
        /\ Len(copied_jobs) = copy_i * Cardinality(get_jobs_as_copied_vector)
        /\ \A k \in 1..copy_i :
              /\ get_jobs_as_copied_vector # {} => Cardinality(C10_Draws(k)) = 1
              /\ \A d \in C10_Draws(k) :
                    /\ d = k
                    /\ \A a \in 1..Len(copied_jobs) :
                          copied_jobs[a].by_call = k =>
                              /\ copied_jobs[a].submission_time =
                                    submission_time[copied_jobs[a].of] + drawn[d].value
                              /\ copied_jobs[a].jitter =
                                    [symbol |-> "+", value |-> drawn[d].value]
        /\ \A k \in 1..copy_i, j \in get_jobs_as_copied_vector :
              \E a \in 1..Len(copied_jobs) :
                  copied_jobs[a].by_call = k /\ copied_jobs[a].of = j

\* Two copies of two jobs have been made in each-copy mode with "+", and the
\* two copies got different numbers.
C10_Witness ==
    /\ copy.howMany = "each-copy"
    /\ copy.symbol = "+"
    /\ nb_old_jobs = 2
    /\ copy_i = 2
    /\ Len(copied_jobs) = 4
    /\ Len(drawn) = 2
    /\ drawn[1].value # drawn[2].value

\* The job numbers Jobs::extend has added to the workload.
C11_AddedNumbers == {copied_jobs[a].id : a \in 1..Len(copied_jobs)}

\* C11: copy(N) on a workload of |J| jobs adds (N-1)*|J| jobs, whose numbers
\* are the consecutive numbers that follow the largest number of the
\* workload; the copy does not fail.
C11_CopyAddsConsecutiveNumbers ==
    /\ ~aborted
    /\ (copy_pc = "loop" /\ copy_i = copy.copies - 1) =>
          /\ Len(copied_jobs) = (copy.copies - 1) * nb_old_jobs
          /\ C11_AddedNumbers =
                (nb_old_jobs + 1)..(nb_old_jobs + (copy.copies - 1) * nb_old_jobs)

(***************************************************************************)
(* Loading a workload.                                                     *)
(***************************************************************************)

\* The defects of a workload file, in what has been read of it.
C12_Defective ==
    \/ load_pc # "nb_res" /\ ~file_nb_res.HasMember
    \/ load_pc # "nb_res" /\ file_nb_res.i <= 0
    \/ \E a, b \in 1..Len(file_jobs) : a # b /\ file_jobs[a].id = file_jobs[b].id
    \/ \E a \in 1..Len(file_jobs) : ~file_profiles[file_jobs[a].profile].present
    \/ \E name \in FileProfileNames :
          /\ file_profiles[name].type = "SEQUENCE"
          /\ \E a \in 1..Len(file_profiles[name].sequence) :
                ~file_profiles[file_profiles[name].sequence[a]].present

\* C12: a workload file without nb_res, with a non-positive nb_res, with two
\* jobs of the same id, with a job whose profile is unknown or with a
\* sequence profile whose sub-profile does not exist is never loaded, and
\* the simulation never starts on it.
C12_DefectiveWorkloadNeverLoaded ==
    /\ C12_Defective => load_pc \notin {"loaded", "simulation"}
    /\ (\E a, b \in 1..Len(file_jobs) : a # b /\ file_jobs[a].id = file_jobs[b].id)
          => aborted
    /\ (\E a \in 1..Len(file_jobs) : ~file_profiles[file_jobs[a].profile].present)
          => aborted
    /\ (load_pc # "nb_res" /\ (~file_nb_res.HasMember \/ file_nb_res.i <= 0))
          => aborted

\* The second job of the file has the id of the first: the load has aborted.
C12_Witness ==
    /\ aborted
    /\ load_pc = "jobs"
    /\ Len(file_jobs) = 2
    /\ file_jobs[1].id = file_jobs[2].id
    /\ file_profiles[file_jobs[2].profile].present

\* The jobs read from the file whose profile has the given type and a
\* number of resources other than the one the job requests.
C13_Mismatched(type) ==
    {a \in 1..Len(file_jobs) :
        /\ file_profiles[file_jobs[a].profile].type = type
        /\ file_profiles[file_jobs[a].profile].nb_res # file_jobs[a].res}

\* C13 as stated: a workload with a job whose PARALLEL_HOMOGENEOUS profile
\* has an nb_res other than the job's requested_nb_res is rejected.
C13_ParallelHomogeneousNbResChecked ==
    load_pc \in {"loaded", "simulation"} => C13_Mismatched("PARALLEL_HOMOGENEOUS") = {}

\* C13, amended: a workload with a job whose PARALLEL profile has an nb_res
\* other than the job's requested_nb_res is rejected: it is never loaded and
\* the simulation never starts on it.
C13_ParallelNbResChecked ==
    load_pc \in {"loaded", "simulation"} => C13_Mismatched("PARALLEL") = {}

\* A file whose only defect is a PARALLEL profile of 2 resources for a job
\* that requests 1: check_validity has aborted the load.
C13_Witness ==
    /\ aborted
    /\ load_pc = "jobs"
    /\ Len(file_jobs) = 1
    /\ ~C12_Defective
    /\ file_profiles[file_jobs[1].profile].type = "PARALLEL"
    /\ file_profiles[file_jobs[1].profile].nb_res = 2
    /\ file_jobs[1].res = 1


\* The checkpointing overhead has been applied to the job's work: Job::from_json
\* has run with checkpointing on, on a job of the workload that is not a
\* resubmission and does not come from a checkpoint.
C14_Applied ==
    /\ from_json_pc = "done"
    /\ checkpointing_on
    /\ original_work = -1
    /\ IF profile_type = "DELAY" THEN ~resubmitted ELSE from_workload

\* C14 (as stated): with checkpointing on, a job whose real work w is not an
\* exact multiple of its checkpoint_interval c gets the effective work
\* ceil(w / c) * dump_time + w.
C14_CeilDumps ==
    C14_Applied =>
        LET w == real_work \div speed
            c == checkpoint_interval
        IN  (c > 0 /\ w % c # 0) =>
               profile_work = (((w + c - 1) \div c) * dump_time + w) * speed

\* C14 (amended): with checkpointing on, a job of real work w and checkpoint
\* interval c gets the effective work floor(w / c) * dump_time + w if w is
\* not an exact multiple of c, and one dump less if it is.
C14_FloorDumps ==
    C14_Applied =>
        LET w == real_work \div speed
            c == checkpoint_interval
        IN  c > 0 =>
               profile_work =
                  (IF w % c # 0
                   THEN (w \div c) * dump_time + w
                   ELSE ((w \div c) - 1) * dump_time + w) * speed

\* A delay of 10 with dump_time 1 and checkpoint_interval 3 has become 13.
C14_Witness ==
    /\ C14_Applied
    /\ profile_type = "DELAY"
    /\ real_work = 10
    /\ checkpoint_interval = 3
    /\ dump_time = 1
    /\ profile_work = 13


\* C15: whenever the validation of the command line reports an error, the
\* process does not run the simulation and exits with a non-zero exit code.
C15_ErrorMeansNonZeroExit ==
    logged_errors # {} =>
        /\ main_pc # "simulation"
        /\ main_pc = "exited" => exit_code # 0


\* C16: after any sequence of add_job and delete_job calls, Jobs::exists(id)
\* is true if and only if a job with that id is currently in the instance.
C16_ExistsIffInJobs ==
    \A id \in JobIdentifiers : exists(id) <=> id \in jobs_map


\* C17: every job object a snapshot writes to workload.json carries all the
\* members the checkpoint loader requires of a job, so that the snapshot is
\* accepted by load_from_json_chkpt.
C17_SnapshotJobsCarryLoaderMembers ==
    /\ \A j \in JobIds :
          workload_json.jobs[j].present =>
              checkpoint_members \subseteq workload_json.jobs[j].members
    /\ restored.done => ~aborted


\* The last registration notification among the first n events received, or
\* "none".
C18_LastNotify(n) ==
    LET notifies == {i \in 1..n : received[i] \in {"registration_finished",
                                                   "continue_registration"}}
    IN  IF notifies = {} THEN "none"
        ELSE received[CHOOSE i \in notifies : \A k \in notifies : k <= i]

\* C18: once a registration_finished notification has been received, every
\* later REGISTER_JOB or REGISTER_PROFILE event, one of the same reply
\* included, is rejected until a continue_registration is received: no
\* registration is accepted while the last notification received is
\* registration_finished, and the rejected one stops the process.
C18_RegistrationRejectedWhileFinished ==
    /\ \A i \in accepted : C18_LastNotify(i - 1) # "registration_finished"
    /\ \A i \in 1..Len(received) :
          (/\ received[i] \in {"REGISTER_JOB", "REGISTER_PROFILE"}
           /\ C18_LastNotify(i - 1) = "registration_finished")
              => (aborted /\ i = Len(received))

\* A REGISTER_JOB that follows registration_finished in the same reply has
\* been rejected, with dynamic registration enabled.
C18_Witness ==
    /\ aborted
    /\ registration_sched_enabled
    /\ nb_replies = 1
    /\ received = <<"registration_finished", "REGISTER_JOB">>
    /\ accepted = {}


\* C19: each outbound message contains exactly the events appended to the
\* writer since the previous clear(), in the order in which they were
\* appended.
C19_MessageHoldsEventsSinceClear ==
    ~doc.empty => doc.events = appended

\* A message has been generated with the one event appended after a
\* clear() that ended a round trip of two events.
C19_Witness ==
    /\ ~aborted
    /\ ~doc.empty
    /\ nb_cleared = 2
    /\ Len(doc.events) = 1

\* C20: in every outbound message produced by generate_current_message, the
\* message's now is greater than or equal to the timestamp of every event of
\* the message.
C20_NowNotBeforeEvents ==
    ~doc.empty =>
        \A i \in 1..Len(doc.events) : doc.events[i].timestamp <= doc.now


(***************************************************************************)
(* EXECUTE_JOB: the mapping and the optional members.                      *)
(***************************************************************************)

\* C21 (as stated): an EXECUTE_JOB event with a mapping is accepted only if
\* the keys of the mapping are exactly 0 .. nb_allocated-1 and every mapped
\* value is in [0, nb_allocated); any other mapping is rejected before the
\* execution message is sent.
C21_MappingCoversAllocation ==
    (execute_pc = "done" /\ execute_data.HasMapping) =>
        LET covers ==
               /\ mapping_keys(execute_data.mapping) = 0..(execute_data.nb_allocated - 1)
               /\ \A i \in 1..Len(execute_data.mapping) :
                     execute_data.mapping[i].resource \in 0..(execute_data.nb_allocated - 1)
        IN  ~covers => (aborted /\ sched_execute_job_sent = 0)

\* C21 (amended): an EXECUTE_JOB event with a mapping is accepted only if
\* the distinct keys of the mapping are exactly 0 .. n-1, n being their
\* number, and the value kept for every key is in [0, nb_allocated); any
\* other mapping is rejected before the execution message is sent.
C21_MappingKeysContiguous ==
    (execute_pc = "done" /\ execute_data.HasMapping) =>
        LET keys == mapping_keys(execute_data.mapping)
            contiguous ==
               /\ keys # {}
               /\ \A k \in keys : k < Cardinality(keys)
               /\ \A k \in keys :
                     \E i \in 1..Len(execute_data.mapping) :
                        /\ execute_data.mapping[i].executor = k
                        /\ \A l \in (i + 1)..Len(execute_data.mapping) :
                              execute_data.mapping[l].executor # k
                        /\ execute_data.mapping[i].resource \in
                              0..(execute_data.nb_allocated - 1)
        IN  ~contiguous => (aborted /\ sched_execute_job_sent = 0)

\* An EXECUTE_JOB whose mapping has the single executor 0 has been sent with
\* two allocated resources.
C21_Witness ==
    /\ execute_pc = "done"
    /\ sched_execute_job_sent = 1
    /\ execute_data.nb_allocated = 2
    /\ execute_data.HasMapping
    /\ mapping_keys(execute_data.mapping) = {0}
    /\ allocation_mapping = <<1>>

\* C22: an EXECUTE_JOB event with job_id, alloc and any combination of the
\* optional members mapping, storage_mapping and additional_io_job, each
\* with valid contents, is accepted and gives exactly one SCHED_EXECUTE_JOB
\* message to the server.
C22_AnyOptionalMembersAccepted ==
    (/\ execute_pc = "done"
     /\ execute_data.nb_allocated > 0
     /\ execute_data.HasMapping =>
           mapping_asserts(execute_data.mapping, execute_data.nb_allocated)
     /\ execute_data.storage_mapping # "invalid"
     /\ execute_data.additional_io_job # "invalid")
        => (~aborted /\ sched_execute_job_sent = 1)


\* C23: a REGISTER_PROFILE event, with dynamic registration enabled, that
\* names a workload not yet in the store creates a dynamic workload with
\* that name, inserts it into the store and registers the profile in it,
\* without error.
C23_NewWorkloadCreatedWithoutError ==
    (last_registered.new_workload /\ registration_sched_enabled) =>
        /\ ~aborted
        /\ last_registered.workload_name \in workloads
        /\ last_registered.profile_name \in workload_profiles[last_registered.workload_name]


\* C24: pending call-me-later timers are consumed in non-decreasing
\* target_time order, and timers of equal target_time in the order of their
\* insertion: the timer a step consumes is, among the pending ones, the one
\* of least target_time and, among those, the one inserted first.
C24_TimersFireInOrder ==
    [][Len(fired') > Len(fired) =>
          LET timer == fired'[Len(fired')]
          IN  \A i \in 1..Len(call_me_laters') :
                 \/ timer.target_time < call_me_laters'[i].target_time
                 \/ /\ timer.target_time = call_me_laters'[i].target_time
                    /\ timer.rank < call_me_laters'[i].rank]_vars

\* Two timers of equal target_time have been consumed in the order of their
\* insertion, before a timer inserted earlier with a later target_time.
C24_Witness ==
    /\ Len(fired) = 2
    /\ fired[1].target_time = fired[2].target_time
    /\ fired[1].rank < fired[2].rank
    /\ \E i \in 1..Len(call_me_laters) :
          /\ call_me_laters[i].rank < fired[1].rank
          /\ call_me_laters[i].target_time > fired[1].target_time


\* C25: with checkpointing on, when checkpoint_interval divides a job's real
\* work w exactly, the dumps added to the job's profile are one fewer than
\* w / checkpoint_interval: no dump is added at the very end of the work.
C25_ExactMultipleSkipsLastDump ==
    C14_Applied =>
        LET w == real_work \div speed
            c == checkpoint_interval
        IN  (c > 0 /\ w % c = 0) =>
               profile_work = (w + ((w \div c) - 1) * dump_time) * speed

\* A cpu of 8 seconds with dump_time 2 and checkpoint_interval 4 has got one
\* dump, not two.
C25_Witness ==
    /\ C14_Applied
    /\ profile_type = "PARALLEL_HOMOGENEOUS"
    /\ real_work = 8 * speed
    /\ checkpoint_interval = 4
    /\ dump_time = 2
    /\ profile_work = 10 * speed


\* Job::from_json has run the block that sets the checkpointing times of a
\* job: checkpointing is on and the job is not a resubmission (DELAY) or
\* comes from the workload (PARALLEL_HOMOGENEOUS).
IntervalSet ==
    /\ from_json_pc = "done"
    /\ checkpointing_on
    /\ IF profile_type = "DELAY" THEN ~resubmitted ELSE from_workload

\* C26: whenever checkpointing is on, every loaded job's effective
\* checkpoint_interval is strictly positive, whether it comes from the job
\* description, from Young's formula or from the global override; a
\* non-positive interval is rejected at load.
C26_IntervalStrictlyPositive ==
    IntervalSet => checkpoint_interval > 0

\* C27 (as stated): if a global checkpointing interval is set, the job's
\* checkpoint_interval equals that global value.
C27_IntervalIsGlobal ==
    (IntervalSet /\ global_checkpointing_interval # -1) =>
        checkpoint_interval = global_checkpointing_interval

\* C27 (amended): if a global checkpointing interval is set, the
\* checkpoint_interval of a job whose checkpointing times Job::from_json sets
\* is that global value less the job's dump time, whatever the job's
\* description and Young's formula give.
C27_IntervalIsGlobalLessDumpTime ==
    (IntervalSet /\ global_checkpointing_interval # -1) =>
        checkpoint_interval = global_checkpointing_interval - dump_time

\* A global interval of 2 has overridden Young's formula on a job with a
\* dump time of 1: the job's interval is 1.
C27_Witness ==
    /\ IntervalSet
    /\ compute_checkpointing
    /\ global_checkpointing_interval = 2
    /\ dump_time = 1
    /\ checkpoint_interval = 1


\* C28: the performance factor and the checkpoint dump overhead are applied
\* to a profile exactly once, no matter how many jobs reference the profile
\* or how many times the jobs are parsed again: the real work of the profile
\* is the work of the workload file times the performance factor, and its
\* effective work is that real work with the dumps of the job parsed last.
C28_FactorAndDumpsAppliedOnce ==
    (nb_from_json >= 1 /\ ~aborted) =>
        IF checkpointing_on
        THEN /\ real_work = performance_factor * file_work
             /\ profile_work = delay_with_dumps(real_work, checkpoint_interval, dump_time)
        ELSE profile_work = performance_factor * file_work


\* C29: when a seed is supplied, the workload transformation is
\* deterministic: two loads of the same workload with the same
\* submission-time options (fixed, exp, unif, shuffle) and the same seed
\* yield identical submission times for every job.
C29_SeededLoadsAgree ==
    (Len(loaded) = 2 /\ st_seed # NoSeed) => loaded[1] = loaded[2]

\* The jobs of a load whose submission time is t, counted.
Multiplicity(times, t) == Cardinality({j \in SubmitJobs : times[j] = t})

\* C30: the shuffle preserves the multiset of submission times of the jobs:
\* after the shuffle every submission time is borne by as many jobs as
\* before, only the assignment of times to jobs is permuted.
C30_ShufflePreservesMultiset ==
    \A l \in 1..Len(loaded) :
        st_shuffle =>
            \A j \in SubmitJobs :
                Multiplicity(loaded[l], before_shuffle[l][j])
                    = Multiplicity(before_shuffle[l], before_shuffle[l][j])

\* A shuffle has exchanged the distinct submission times of two jobs.
C30_Witness ==
    /\ st_shuffle
    /\ Len(loaded) >= 1
    /\ \E j, k \in SubmitJobs :
          /\ before_shuffle[1][j] # before_shuffle[1][k]
          /\ loaded[1][j] = before_shuffle[1][k]
          /\ loaded[1][k] = before_shuffle[1][j]


\* The timers of a multimap whose target_time is at least t, in order.
PendingFrom(ms, t) ==
    LET Pending(timer) == timer.target_time >= t
    IN  SelectSeq(ms, Pending)

\* C31: the call-me-laters written to batsim_variables.chkpt by a snapshot
\* taken at time t are exactly the timers pending before the snapshot whose
\* target_time is at least t: one equal to t is written, one below t is not.
C31_WrittenTimersAreThoseFromNow ==
    variables_chkpt.written =>
        variables_chkpt.call_me_laters
            = PendingFrom(variables_chkpt.before, variables_chkpt.clock)

\* A snapshot at time 1 with timers for 0, 1 and 2 pending has written the
\* timers for 1 and 2.
C31_Witness ==
    /\ variables_chkpt.written
    /\ variables_chkpt.clock = 1
    /\ Len(variables_chkpt.before) = 3
    /\ variables_chkpt.before[1].target_time = 0
    /\ Len(variables_chkpt.call_me_laters) = 2
    /\ variables_chkpt.call_me_laters[1].target_time = 1
    /\ variables_chkpt.call_me_laters[2].target_time = 2

\* C32: taking a snapshot does not change the live simulation state: the
\* context's pending call-me-later timers are the same after
\* write_out_batsim_checkpoint returns as before the call.
C32_SnapshotLeavesTimers ==
    variables_chkpt.written => variables_chkpt.after = variables_chkpt.before


\* C33: in every snapshot's workload.json, the profile name referenced by
\* each written job is a key of the snapshot's profiles dictionary.
C33_WrittenJobProfilesResolve ==
    \A j \in JobIds :
        workload_json.jobs[j].present =>
            workload_json.profiles[workload_json.jobs[j].profile].present

\* C34: a live job whose walltime is -1 is written to a snapshot with the
\* walltime -1, whatever its progress.
C34_UnboundedWalltimeIsKept ==
    \A j \in JobIds :
        (workload_json.jobs[j].present /\ job_walltime[j] = -1) =>
            workload_json.jobs[j].walltime = -1

\* C35: for a job whose profile is a sequence, the progress compute_job_progress
\* reports for the root task is the progress of the child at current_task_index
C35_ParentReportsChildProgress ==
    (progress_call.called /\ task.type = "SEQUENCE" /\ in_range(progress_call.index, sub_tasks))
        => progress_call.returned = progress_call.child

\* C40: compute_job_progress on a sequence whose current_task_index is still the
\* initial sentinel accesses no element of sub_tasks
C40_SentinelIndexIsNotDereferenced ==
    (progress_call.called /\ task.type = "SEQUENCE" /\ progress_call.index = NoTaskIndex)
        => progress_call.accessed = <<>>

\* the string is two '!'-separated parts: it holds exactly one '!'
C36_TwoParts == Len(boost_split_Uncompressed(job_id_str, 1, <<<<>>>>, FALSE)) = 2

\* C36: a JobIdentifier is constructed from every string of exactly two
\* '!'-separated parts, and the construction fails only for the other strings
C36_ConstructedFromTwoParts ==
    job_identifier.outcome # "none"
        => (job_identifier.outcome = "constructed" <=> C36_TwoParts)

\* C37: after the copy step of the transformation pipeline every job of the
\* workload, copied or not, has a submission time of at least 0
C37_SubmissionTimesNotNegative ==
    /\ \A j \in OldJobs : submission_time[j] >= 0
    /\ \A a \in 1..Len(copied_jobs) : copied_jobs[a].submission_time >= 0

\* C38: the copy step gives no copy the number of a job of the workload,
\* reservations included
C38_CopiesGetUnusedNumbers ==
    \A a \in 1..Len(newJobs) : newJobs[a].id \notin OldJobs

=============================================================================
